---- MODULE Spec2Model ----
(***************************************************************************)
(* A model of the hybrid search resolver of debate_arena:                  *)
(*   HybridSearchEngine.search over the Redis hot cache (exact key lookup  *)
(*   and KNN lookup over the same hashes), the SQLite cold cache, the      *)
(*   embedder and the SearXNG client.                                      *)
(*                                                                         *)
(* Strings are sequences of characters, so that str.strip() is computed.  *)
(* One clock tick is one hour; the Redis TTL of 2*60*60 seconds is 2.      *)
(***************************************************************************)
EXTENDS Integers, Sequences, FiniteSets, TLC

VARIABLES
    mode,        \* Embedder.mode of the session's embedder
    dim,         \* Embedder.dim, also RedisVectorCache._vector_dim
    ann,         \* state of the RediSearch index after __init__
    redis,       \* the Redis hashes under the key prefix: key -> hash
    cold,        \* the SQLite table searx_cache: query -> payload_json
    last,        \* the outcome search has returned and the caller has not yet
                 \* consumed, with the history of the call that made it and
                 \* what search answered for each query just before it
    first,       \* history: the call made on empty caches, and the hours since
    unsupported, \* history: search_similar has signalled "unsupported"
    coldFailed,  \* history: some write to the SQLite table has failed
    direct,      \* the call last made on a cache or on the embedder directly,
                 \* with what it returned
    written,     \* history: query -> the payload of the latest SqliteCache.set
    sinceSet,    \* history: Redis key -> the hours since the latest set that
                 \* returned, and whether a set that raised wrote to it since
    pc,          \* thread -> its position in Embedder._st_embed
    stModel,     \* Embedder._model: 0 for None, else the instance built n-th
    built,       \* how many times SentenceTransformer(...) has returned
    clients,     \* FallbackChatModel: len(self._clients)
    disabled,    \* FallbackChatModel._disabled
    active_idx,  \* FallbackChatModel._active_idx
    everRaised,  \* the clients that have raised in some invoke so far
    round,       \* DebateState["round"]
    rounds,      \* DebateState["rounds"]
    stage,       \* DebateState["stage"]
    first_side,  \* DebateState["first_side"]
    blocks,      \* DebateDocument.blocks, by the kind of each block
    node,        \* the node of the graph that runs next
    executed     \* the number of nodes the graph has run

vars ==
    <<mode, dim, ann, redis, cold, last, first, unsupported, coldFailed,
      direct, written, sinceSet, pc, stModel, built,
      clients, disabled, active_idx, everRaised,
      round, rounds, stage, first_side, blocks, node, executed>>

\* the variables of the resolver's callers
resolverVars == <<last, first, unsupported, coldFailed>>
\* the variables of direct calls on the components
componentVars == <<direct, written, sinceSet>>
\* the variables of the threads inside the embedder
threadVars == <<pc, stModel, built>>
llmVars == <<clients, disabled, active_idx, everRaised>>
graphVars == <<round, rounds, stage, first_side, blocks, node, executed>>
agentVars == <<llmVars, graphVars>>

---------------------------------------------------------------------------
(* Bounds of the model *)

\* most blanks the caller leaves on either side of the text of a query
MaxPad == 1
\* the number of results on a page of the live provider
MaxResults == 1

(* Program constants *)

\* ttl_seconds = 2 * 60 * 60, in hours
TTL == 2
\* search_similar(embedding, k=3)
K == 3
\* SearxngClient.search(..., max_results=8)
MaxKept == 8
\* the fallback dimension of _hash_embed, and the width of all-MiniLM-L6-v2
DefaultDim == 384

\* the query strings the caller passes: a text, or none, between blanks
Texts == {<<>>, <<"a">>, <<"b">>}
Blanks(n) == [i \in 1..n |-> " "]
RawQueries == {Blanks(i) \o t \o Blanks(i) : i \in 0..MaxPad, t \in Texts}

Modes == {"hash", "st", "auto"}
ConfigDims == {0, DefaultDim}

\* what the provider answers for a query: no result, or a page of its
\* ranking (result i is the i-th of the ranking)
ResultLists == {<<>>, [i \in 1..MaxResults |-> i]}

---------------------------------------------------------------------------
(* str.strip() *)

RECURSIVE LStrip(_)
LStrip(s) == IF s # <<>> /\ Head(s) = " " THEN LStrip(Tail(s)) ELSE s

RECURSIVE RStrip(_)
RStrip(s) ==
    IF s # <<>> /\ s[Len(s)] = " " THEN RStrip(SubSeq(s, 1, Len(s) - 1)) ELSE s

Strip(s) == RStrip(LStrip(s))

\* the digest of the query as passed, without strip()
StableIdUnstripped(query) == <<"sha256", query>>

\* hashlib.sha256(query.strip().encode()).hexdigest(): injective on the
\* stripped text, tagged so that an id is not a query
StableId(query) == <<"sha256", Strip(query)>>

MakeKey(item_id) == <<"searx_cache:", item_id>>

RedisKeys == {MakeKey(StableId(q)) : q \in RawQueries}

(* json.dumps / json.loads of a payload {"query": ..., "results": [...]} *)
Dumps(payload) == <<"query", payload.query, "results">> \o payload.results

Loads(text) == [query |-> text[2], results |-> SubSeq(text, 4, Len(text))]

\* the payload {"results": []} of a degraded outcome
EmptyResults == [results |-> <<>>]

---------------------------------------------------------------------------
(* Embedder *)

\* the length of the vector _hash_embed(text, dim=self.dim) returns
HashLen == IF dim > 0 THEN dim ELSE DefaultDim

HashEmbed(text) == [res |-> "ok", text |-> Strip(text), len |-> HashLen]

\* _st_embed(text); modelUp: SentenceTransformer loads and encodes
StEmbed(text, modelUp) ==
    IF modelUp THEN [res |-> "ok", text |-> text, len |-> DefaultDim]
    ELSE [res |-> "raise", text |-> text, len |-> 0]

\* Embedder.embed(text)
Embed(text, modelUp) ==
    IF mode = "hash" THEN HashEmbed(text)
    ELSE IF mode = "st" THEN StEmbed(text, modelUp)
    ELSE IF StEmbed(text, modelUp).res = "raise" THEN HashEmbed(text)
    ELSE StEmbed(text, modelUp)

\* no call has been made on a component directly
NoOp == [name |-> "none"]

(* _hash_embed computed: 64-bit integers are sequences of 8 bytes, the     *)
(* least significant first, as int.from_bytes(h[:8], "little") reads them  *)

\* the words whose embeddings are computed
EmbedWords == {<<"a">>, <<"a", "b">>, <<"b", "s">>}

\* s.encode("utf-8") for the characters of those words
Ord == ("a" :> 97) @@ ("b" :> 98) @@ ("s" :> 115)
Utf8(text) == [i \in 1..Len(text) |-> Ord[text[i]]]

\* hashlib.blake2b(data, digest_size=32).digest()[:8] of those words
Blake2bSeed ==
    (<<"a">> :> <<137, 40, 170, 230, 60, 132, 216, 126>>) @@
    (<<"a", "b">> :> <<246, 90, 94, 119, 255, 94, 38, 144>>) @@
    (<<"b", "s">> :> <<158, 152, 116, 28, 72, 217, 193, 189>>)

\* 6364136223846793005
Multiplier == <<45, 127, 149, 76, 45, 244, 81, 88>>

\* the sum of seed[i] * Multiplier[k + 1 - i] for i = from .. k
RECURSIVE Conv(_, _, _)
Conv(seed, k, from) ==
    IF from > k THEN 0
    ELSE seed[from] * Multiplier[k + 1 - from] + Conv(seed, k, from + 1)

\* bytes k .. 8 of seed * Multiplier + add, with the carry into byte k
RECURSIVE LcgBytes(_, _, _, _)
LcgBytes(seed, add, k, carry) ==
    IF k > Len(seed) THEN <<>>
    ELSE LET sum == carry + (IF k = 1 THEN add ELSE 0) + Conv(seed, k, 1)
         IN  <<sum % 256>> \o LcgBytes(seed, add, k + 1, sum \div 256)

\* (seed * 6364136223846793005 + 1 + b) & 0xFFFFFFFFFFFFFFFF
NextSeed(seed, b) == LcgBytes(seed, 1 + b, 1, 0)

\* the number made of bytes k .. 8 of seed, modulo d
RECURSIVE RemFrom(_, _, _)
RemFrom(seed, d, k) ==
    IF k > Len(seed) THEN 0
    ELSE (RemFrom(seed, d, k + 1) * 256 + seed[k]) % d

\* int(seed % dim)
Index(seed, d) == RemFrom(seed, d, 1)

\* 1.0 if (seed >> 63) == 0 else -1.0
Sign(seed) == IF seed[Len(seed)] < 128 THEN 1 ELSE -1

\* v[idx] += sign, v being kept as the function from the indices of its
\* non-zero components to their values
Add(v, idx, sign) ==
    LET new == (IF idx \in DOMAIN v THEN v[idx] ELSE 0) + sign
    IN  IF new = 0 THEN [j \in DOMAIN v \ {idx} |-> v[j]]
        ELSE (idx :> new) @@ v

\* the loop of _hash_embed over the bytes of the text
RECURSIVE Accumulate(_, _, _, _)
Accumulate(data, seed, d, v) ==
    IF data = <<>> THEN v
    ELSE CHOOSE r \in {Accumulate(Tail(data), s2, d,
                                  Add(v, Index(s2, d), Sign(s2))) :
                          s2 \in {NextSeed(seed, Head(data))}} : TRUE

\* _hash_embed seeded by the calls made before as well as by the text
HashVectorSalted(text, d) ==
    LET n == IF d > 0 THEN d ELSE DefaultDim
        stripped == Strip(text)
        salt == IF direct = NoOp THEN 0 ELSE Cardinality(DOMAIN direct.earlier)
    IN  [len |-> n,
         counts |-> IF stripped = <<>> THEN <<>>
                    ELSE Accumulate(Utf8(stripped),
                                    NextSeed(Blake2bSeed[stripped], salt), n, <<>>)]

\* _hash_embed(text, dim=d): the vector has len components; counts holds
\* the non-zero ones before v /= norm, which leaves a vector of norm 1
\* when there is one and the zero vector when there is none
HashVector(text, d) ==
    LET n == IF d > 0 THEN d ELSE DefaultDim
        stripped == Strip(text)
    IN  [len |-> n,
         counts |-> IF stripped = <<>> THEN <<>>
                    ELSE Accumulate(Utf8(stripped), Blake2bSeed[stripped], n, <<>>)]

---------------------------------------------------------------------------
(* RedisVectorCache *)

\* get_exact looking under the prefixed query instead of the prefixed digest
GetExactRawKey(query, up) ==
    LET key == MakeKey(query)
    IN  IF ~up THEN [res |-> "raise", payload |-> EmptyResults]
        ELSE IF key \notin DOMAIN redis THEN [res |-> "miss", payload |-> EmptyResults]
        ELSE IF redis[key].payload_json = <<>>
        THEN [res |-> "miss", payload |-> EmptyResults]
        ELSE [res |-> "hit", payload |-> Loads(redis[key].payload_json)]

\* get_exact(query); up: the Redis backend answers this command
GetExact(query, up) ==
    LET key == MakeKey(StableId(query))
    IN  IF ~up THEN [res |-> "raise", payload |-> EmptyResults]
        ELSE IF key \notin DOMAIN redis THEN [res |-> "miss", payload |-> EmptyResults]
        ELSE IF redis[key].payload_json = <<>>
        THEN [res |-> "miss", payload |-> EmptyResults]
        ELSE [res |-> "hit", payload |-> Loads(redis[key].payload_json)]

\* the elements of a set in some fixed order
RECURSIVE SetToSeq(_)
SetToSeq(S) ==
    IF S = {} THEN <<>>
    ELSE LET x == CHOOSE y \in S : TRUE IN <<x>> \o SetToSeq(S \ {x})

FirstK(seq, k) == SubSeq(seq, 1, IF Len(seq) < k THEN Len(seq) ELSE k)

\* search_similar(embedding, k); up: the backend answers FT.SEARCH;
\* nearest: the key the HNSW index ranks first for this vector
SearchSimilar(embedding, k, up, nearest) ==
    IF embedding.len # dim THEN [res |-> "raise", hits |-> <<>>]
    ELSE IF ann = "unsupported" THEN [res |-> "unsupported", hits |-> <<>>]
    ELSE IF ~up \/ ann = "noindex" THEN [res |-> "raise", hits |-> <<>>]
    ELSE LET ranked == IF nearest \in DOMAIN redis
                       THEN <<nearest>> \o SetToSeq(DOMAIN redis \ {nearest})
                       ELSE SetToSeq(DOMAIN redis)
             hits == [i \in 1..Len(FirstK(ranked, k)) |->
                        [query |-> redis[ranked[i]].query,
                         payload |-> Loads(redis[ranked[i]].payload_json)]]
         IN  [res |-> IF hits = <<>> THEN "miss" ELSE "hit", hits |-> hits]

\* the hash HSET leaves under a key, with the expiry it has afterwards
Hash(query, payload, embedding, expires, ttl) ==
    [query |-> query, payload_json |-> Dumps(payload), embedding |-> embedding,
     expires |-> expires, ttl |-> ttl]

\* set without EXPIRE on a key that has an expiry: the countdown goes on
RedisSetNoRestart(query, payload, embedding, outcome) ==
    LET key == MakeKey(StableId(query))
        had == key \in DOMAIN redis
        kept == Hash(query, payload, embedding,
                     IF had THEN redis[key].expires ELSE FALSE,
                     IF had THEN redis[key].ttl ELSE 0)
        fresh == Hash(query, payload, embedding, TRUE, TTL)
    IN  IF embedding.len # dim THEN [res |-> "raise", redis |-> redis]
        ELSE IF outcome = "fail" THEN [res |-> "raise", redis |-> redis]
        ELSE IF outcome = "noexpire"
        THEN [res |-> "raise", redis |-> (key :> kept) @@ redis]
        ELSE IF had /\ redis[key].expires
        THEN [res |-> "ok", redis |-> (key :> kept) @@ redis]
        ELSE [res |-> "ok", redis |-> (key :> fresh) @@ redis]

\* set with the length check after HSET: the hash is written, then it raises
RedisSetLateGuard(query, payload, embedding, outcome) ==
    LET key == MakeKey(StableId(query))
        had == key \in DOMAIN redis
        kept == Hash(query, payload, embedding,
                     IF had THEN redis[key].expires ELSE FALSE,
                     IF had THEN redis[key].ttl ELSE 0)
        fresh == Hash(query, payload, embedding, TRUE, TTL)
    IN  IF outcome = "fail" THEN [res |-> "raise", redis |-> redis]
        ELSE IF embedding.len # dim \/ outcome = "noexpire"
        THEN [res |-> "raise", redis |-> (key :> kept) @@ redis]
        ELSE [res |-> "ok", redis |-> (key :> fresh) @@ redis]

\* set(query, payload, embedding); outcome: "ok", "fail" (HSET raises) or
\* "noexpire" (HSET is done and EXPIRE raises: the key keeps the expiry it had)
RedisSet(query, payload, embedding, outcome) ==
    LET key == MakeKey(StableId(query))
        had == key \in DOMAIN redis
        kept == Hash(query, payload, embedding,
                     IF had THEN redis[key].expires ELSE FALSE,
                     IF had THEN redis[key].ttl ELSE 0)
        fresh == Hash(query, payload, embedding, TRUE, TTL)
    IN  IF embedding.len # dim THEN [res |-> "raise", redis |-> redis]
        ELSE IF outcome = "fail" THEN [res |-> "raise", redis |-> redis]
        ELSE IF outcome = "noexpire"
        THEN [res |-> "raise", redis |-> (key :> kept) @@ redis]
        ELSE [res |-> "ok", redis |-> (key :> fresh) @@ redis]

\* what Redis answers to FT.CREATE; up: the server is reached
FtCreate(up) ==
    IF ~up THEN [err |-> "ConnectionError", msg |-> "Connection refused"]
    ELSE IF ann = "unsupported"
    THEN [err |-> "ResponseError", msg |-> "unknown command 'FT.CREATE'"]
    ELSE IF ann = "ready"
    THEN [err |-> "ResponseError", msg |-> "Index already exists"]
    ELSE IF dim <= 0
    THEN [err |-> "ResponseError", msg |-> "Bad arguments for vector similarity DIM"]
    ELSE [err |-> "none", msg |-> "OK"]

\* the messages ensure_index takes for an index that exists
AlreadyExists == {"Index already exists", "index already exists"}

\* ensure_index without its except clause: every error of FT.CREATE is raised
EnsureIndexStrict(up) ==
    LET reply == FtCreate(up)
    IN  IF reply.err = "none" THEN [res |-> "ok", ann |-> "ready"]
        ELSE [res |-> "raise", ann |-> ann]

\* ensure_index(); up: the server is reached
EnsureIndex(up) ==
    LET reply == FtCreate(up)
    IN  IF reply.err = "none" THEN [res |-> "ok", ann |-> "ready"]
        ELSE IF reply.err = "ResponseError" /\ reply.msg \in AlreadyExists
        THEN [res |-> "ok", ann |-> ann]
        ELSE [res |-> "raise", ann |-> ann]

---------------------------------------------------------------------------
(* SqliteCache *)

\* get without its WHERE clause: the row of any query answers
SqliteGetAnyRow(query, up) ==
    IF ~up THEN [res |-> "raise", payload |-> EmptyResults]
    ELSE IF DOMAIN cold = {} THEN [res |-> "miss", payload |-> EmptyResults]
    ELSE [res |-> "hit", payload |-> Loads(cold[CHOOSE q \in DOMAIN cold : TRUE])]

\* get(query): SELECT ... WHERE query = ?; up: the database answers
SqliteGet(query, up) ==
    IF ~up THEN [res |-> "raise", payload |-> EmptyResults]
    ELSE IF query \notin DOMAIN cold THEN [res |-> "miss", payload |-> EmptyResults]
    ELSE [res |-> "hit", payload |-> Loads(cold[query])]

\* set with INSERT OR IGNORE: the row a query already has is kept
SqliteSetIgnore(query, payload, up) ==
    IF ~up THEN [res |-> "raise", cold |-> cold]
    ELSE IF query \in DOMAIN cold THEN [res |-> "ok", cold |-> cold]
    ELSE [res |-> "ok", cold |-> (query :> Dumps(payload)) @@ cold]

\* set that returns without a commit: the row is not kept
SqliteSetDropped(query, payload, up) ==
    IF ~up THEN [res |-> "raise", cold |-> cold]
    ELSE [res |-> "ok", cold |-> cold]

\* set(query, payload): INSERT OR REPLACE; up: the database answers
SqliteSet(query, payload, up) ==
    IF ~up THEN [res |-> "raise", cold |-> cold]
    ELSE [res |-> "ok", cold |-> (query :> Dumps(payload)) @@ cold]

---------------------------------------------------------------------------
(* SearxngClient *)

\* search(query); up: the request succeeds with a 2xx status and a JSON
\* body; results: the "results" array of that body
SearxngSearch(query, up, results) ==
    IF ~up THEN [res |-> "raise", query |-> query, results |-> <<>>]
    ELSE [res |-> "ok", query |-> query, results |-> FirstK(results, MaxKept)]

---------------------------------------------------------------------------
(* HybridSearchEngine.search *)

\* SearchOutcome(query, source, payload), with the tier calls made and the
\* stores as the call leaves them
Outcome(query, source, payload, steps, newRedis, newCold) ==
    [query |-> query, source |-> source, payload |-> payload, steps |-> steps,
     redis |-> newRedis, cold |-> newCold]

Step(op, res) == [op |-> op, res |-> res]

\* bool(payload) of a dict: false for the empty dict only
Truthy(payload) == DOMAIN payload # {}

\* the behaviour of the backends during one call: which commands are
\* answered, what the index ranks first, what the provider returns
NoKey == MakeKey(StableId(<<>>))
DefaultEnv ==
    [exact |-> TRUE, model |-> TRUE, sem |-> TRUE, nearest |-> NoKey,
     cold |-> TRUE, live |-> TRUE, results |-> <<>>, coldw |-> TRUE,
     model2 |-> TRUE, redisw |-> "ok"]

\* the write-backs without their own try blocks: a failed write reaches the
\* except of the live search
WriteBackUncaught(query, payload, emb1, steps, env) ==
    LET cw == SqliteSet(query, payload, env.coldw)
        steps1 == Append(steps, Step("sqlite_set", cw.res))
        emb2 == IF emb1.res = "raise" THEN Embed(query, env.model2) ELSE emb1
        steps2 == IF emb1.res = "raise"
                  THEN Append(steps1, Step("embed", emb2.res)) ELSE steps1
        rw == RedisSet(query, payload, emb2, env.redisw)
    IN  IF cw.res = "raise"
        THEN Outcome(query, "degraded", EmptyResults, steps1, redis, cold)
        ELSE IF emb2.res = "raise"
        THEN Outcome(query, "degraded", EmptyResults, steps2, redis, cw.cold)
        ELSE IF rw.res = "raise"
        THEN Outcome(query, "degraded", EmptyResults,
                     Append(steps2, Step("redis_set", rw.res)), rw.redis, cw.cold)
        ELSE Outcome(query, "searxng", payload,
                     Append(steps2, Step("redis_set", rw.res)), rw.redis, cw.cold)

\* the two write-backs in one try block: a failed SQLite write skips the
\* Redis write
WriteBackOneTry(query, payload, emb1, steps, env) ==
    LET cw == SqliteSet(query, payload, env.coldw)
        steps1 == Append(steps, Step("sqlite_set", cw.res))
        emb2 == IF emb1.res = "raise" THEN Embed(query, env.model2) ELSE emb1
        steps2 == IF emb1.res = "raise"
                  THEN Append(steps1, Step("embed", emb2.res)) ELSE steps1
        rw == RedisSet(query, payload, emb2, env.redisw)
    IN  IF cw.res = "raise"
        THEN Outcome(query, "searxng", payload, steps1, redis, cold)
        ELSE IF emb2.res = "raise"
        THEN Outcome(query, "searxng", payload, steps2, redis, cw.cold)
        ELSE Outcome(query, "searxng", payload,
                     Append(steps2, Step("redis_set", rw.res)), rw.redis, cw.cold)

\* the write-backs with the query embedded again for the Redis write
WriteBackReembed(query, payload, emb1, steps, env) ==
    LET cw == SqliteSet(query, payload, env.coldw)
        steps1 == Append(steps, Step("sqlite_set", cw.res))
        emb2 == Embed(query, env.model2)
        steps2 == Append(steps1, Step("embed", emb2.res))
        rw == RedisSet(query, payload, emb2, env.redisw)
    IN  IF emb2.res = "raise"
        THEN Outcome(query, "searxng", payload, steps2, redis, cw.cold)
        ELSE Outcome(query, "searxng", payload,
                     Append(steps2, Step("redis_set", rw.res)), rw.redis, cw.cold)

\* lines 128-140: the two write-backs, then the live outcome
WriteBack(query, payload, emb1, steps, env) ==
    LET cw == SqliteSet(query, payload, env.coldw)
        steps1 == Append(steps, Step("sqlite_set", cw.res))
        emb2 == IF emb1.res = "raise" THEN Embed(query, env.model2) ELSE emb1
        steps2 == IF emb1.res = "raise"
                  THEN Append(steps1, Step("embed", emb2.res)) ELSE steps1
        rw == RedisSet(query, payload, emb2, env.redisw)
    IN  IF emb2.res = "raise"
        THEN Outcome(query, "searxng", payload, steps2, redis, cw.cold)
        ELSE Outcome(query, "searxng", payload,
                     Append(steps2, Step("redis_set", rw.res)), rw.redis, cw.cold)

\* lines 112-142: the live search
FromLive(query, emb1, steps, env) ==
    LET resp == SearxngSearch(query, env.live, env.results)
        steps1 == Append(steps, Step("searxng", resp.res))
        payload == [query |-> resp.query, results |-> resp.results]
    IN  IF resp.res = "raise"
        THEN Outcome(query, "degraded", EmptyResults, steps1, redis, cold)
        ELSE WriteBack(query, payload, emb1, steps1, env)

\* the SQLite lookup without its try: a database error ends the call
FromColdFailFast(query, emb1, steps, env) ==
    LET item == SqliteGet(query, env.cold)
        steps1 == Append(steps, Step("sqlite_get", item.res))
    IN  IF item.res = "raise"
        THEN Outcome(query, "degraded", EmptyResults, steps1, redis, cold)
        ELSE IF item.res = "hit"
        THEN Outcome(query, "sqlite", item.payload, steps1, redis, cold)
        ELSE FromLive(query, emb1, steps1, env)

\* the SQLite lookup that copies the row it finds into Redis
FromColdBackfill(query, emb1, steps, env) ==
    LET item == SqliteGet(query, env.cold)
        steps1 == Append(steps, Step("sqlite_get", item.res))
        rw == RedisSet(query, item.payload, emb1, env.redisw)
    IN  IF item.res = "hit" /\ emb1.res = "raise"
        THEN Outcome(query, "sqlite", item.payload, steps1, redis, cold)
        ELSE IF item.res = "hit"
        THEN Outcome(query, "sqlite", item.payload, steps1, rw.redis, cold)
        ELSE FromLive(query, emb1, steps1, env)

\* the SQLite lookup whose row is not returned: the live search follows
FromColdThenLive(query, emb1, steps, env) ==
    LET item == SqliteGet(query, env.cold)
        steps1 == Append(steps, Step("sqlite_get", item.res))
    IN  FromLive(query, emb1, steps1, env)

\* lines 104-110: the SQLite lookup
FromCold(query, emb1, steps, env) ==
    LET item == SqliteGet(query, env.cold)
        steps1 == Append(steps, Step("sqlite_get", item.res))
    IN  IF item.res = "hit"
        THEN Outcome(query, "sqlite", item.payload, steps1, redis, cold)
        ELSE FromLive(query, emb1, steps1, env)

\* the semantic lookup going on to the live search, past the SQLite lookup
FromSemanticSkipCold(query, steps, env) ==
    LET emb1 == Embed(query, env.model)
        steps1 == Append(steps, Step("embed", emb1.res))
        sem == SearchSimilar(emb1, K, env.sem, env.nearest)
        steps2 == Append(steps1, Step("search_similar", sem.res))
    IN  IF emb1.res = "raise" THEN FromLive(query, emb1, steps1, env)
        ELSE IF sem.hits # <<>>
        THEN Outcome(query, "redis_semantic", sem.hits[1].payload, steps2,
                     redis, cold)
        ELSE FromLive(query, emb1, steps2, env)

\* the semantic lookup that accepts a neighbour stored for the same query only
FromSemanticSameQuery(query, steps, env) ==
    LET emb1 == Embed(query, env.model)
        steps1 == Append(steps, Step("embed", emb1.res))
        sem == SearchSimilar(emb1, K, env.sem, env.nearest)
        steps2 == Append(steps1, Step("search_similar", sem.res))
    IN  IF emb1.res = "raise" THEN FromCold(query, emb1, steps1, env)
        ELSE IF sem.hits # <<>> /\ sem.hits[1].query = query
        THEN Outcome(query, "redis_semantic", sem.hits[1].payload, steps2,
                     redis, cold)
        ELSE FromCold(query, emb1, steps2, env)

\* lines 93-102: the embedding and the semantic lookup
FromSemantic(query, steps, env) ==
    LET emb1 == Embed(query, env.model)
        steps1 == Append(steps, Step("embed", emb1.res))
        sem == SearchSimilar(emb1, K, env.sem, env.nearest)
        steps2 == Append(steps1, Step("search_similar", sem.res))
    IN  IF emb1.res = "raise" THEN FromCold(query, emb1, steps1, env)
        ELSE IF sem.hits # <<>>
        THEN Outcome(query, "redis_semantic", sem.hits[1].payload, steps2,
                     redis, cold)
        ELSE FromCold(query, emb1, steps2, env)

\* the exact lookup without its try: a Redis error leaves search
FromExactUncaught(query, env) ==
    LET exact == GetExact(query, env.exact)
        steps1 == <<Step("get_exact", exact.res)>>
    IN  IF exact.res = "raise"
        THEN Outcome(query, "exception", EmptyResults, steps1, redis, cold)
        ELSE IF exact.res = "hit" /\ Truthy(exact.payload)
        THEN Outcome(query, "redis_exact", exact.payload, steps1, redis, cold)
        ELSE FromSemantic(query, steps1, env)

\* lines 85-91: the exact lookup
FromExact(query, env) ==
    LET exact == GetExact(query, env.exact)
        steps1 == <<Step("get_exact", exact.res)>>
    IN  IF exact.res = "hit" /\ Truthy(exact.payload)
        THEN Outcome(query, "redis_exact", exact.payload, steps1, redis, cold)
        ELSE FromSemantic(query, steps1, env)

\* search without query.strip()
SearchResultUnstripped(raw, env) ==
    IF raw = <<>>
    THEN Outcome(raw, "degraded", EmptyResults, <<>>, redis, cold)
    ELSE FromExact(raw, env)

\* search(query)
SearchResult(raw, env) ==
    LET query == Strip(raw)
    IN  IF query = <<>>
        THEN Outcome(query, "degraded", EmptyResults, <<>>, redis, cold)
        ELSE FromExact(query, env)

---------------------------------------------------------------------------
(* The environments of one call: every behaviour of the backends that the    *)
(* call can tell apart, each field chosen where the call reads it            *)

ModelStates == IF mode = "st" \/ mode = "auto" THEN BOOLEAN ELSE {TRUE}

Nearest == IF DOMAIN redis = {} THEN {NoKey} ELSE DOMAIN redis

EnvsWriteBack(query, emb1, e) ==
    UNION {UNION {
        LET e2 == [e EXCEPT !.coldw = cw, !.model2 = m]
            emb2 == IF emb1.res = "raise" THEN Embed(query, m) ELSE emb1
        IN  IF emb2.res = "raise" \/ emb2.len # dim THEN {e2}
            ELSE {[e2 EXCEPT !.redisw = rw] : rw \in {"ok", "fail", "noexpire"}}
        : m \in IF emb1.res = "raise" THEN ModelStates ELSE {TRUE}}
        : cw \in BOOLEAN}

EnvsFromLive(query, emb1, e) ==
    {[e EXCEPT !.live = FALSE]} \cup
    UNION {EnvsWriteBack(query, emb1, [e EXCEPT !.results = rs])
           : rs \in ResultLists}

EnvsFromCold(query, emb1, e) ==
    UNION {LET e2 == [e EXCEPT !.cold = up]
           IN  IF SqliteGet(query, up).res = "hit" THEN {e2}
               ELSE EnvsFromLive(query, emb1, e2)
           : up \in BOOLEAN}

EnvsFromSemantic(query, e) ==
    UNION {LET e2 == [e EXCEPT !.model = m]
               emb1 == Embed(query, m)
           IN  IF emb1.res = "raise" \/ emb1.len # dim \/ ann # "ready"
               THEN EnvsFromCold(query, emb1, e2)
               ELSE EnvsFromCold(query, emb1, [e2 EXCEPT !.sem = FALSE]) \cup
                    UNION {LET e3 == [e2 EXCEPT !.nearest = n]
                           IN  IF SearchSimilar(emb1, K, TRUE, n).hits # <<>>
                               THEN {e3} ELSE EnvsFromCold(query, emb1, e3)
                           : n \in Nearest}
           : m \in ModelStates}

Envs(raw) ==
    IF Strip(raw) = <<>> THEN {DefaultEnv}
    ELSE UNION {LET e == [DefaultEnv EXCEPT !.exact = up]
                IN  IF GetExact(Strip(raw), up).res = "hit" THEN {e}
                    ELSE EnvsFromSemantic(Strip(raw), e)
                : up \in BOOLEAN}

---------------------------------------------------------------------------
(* The state machine *)

NoFirst == [query |-> <<>>, payload |-> EmptyResults, age |-> 0]

NoCall ==
    [blank |-> TRUE, query |-> <<>>, source |-> "none", payload |-> EmptyResults,
     steps |-> <<>>, env |-> DefaultEnv, knew |-> FALSE, cachesEmpty |-> FALSE,
     after |-> NoFirst, before |-> <<>>]

\* the backends a search of another query may meet: all answering, with any
\* key first in the ranking of the index and either page from the provider
LaterEnvs ==
    {[DefaultEnv EXCEPT !.nearest = n, !.results = rs] :
        n \in RedisKeys, rs \in ResultLists}

\* the source and payload search(query) returns in the current state
Answer(query, e) ==
    LET r == SearchResult(query, e) IN [source |-> r.source, payload |-> r.payload]

\* history: what search returns for each query, called now instead
Answers == [q \in Texts \ {<<>>} |-> [e \in LaterEnvs |-> Answer(q, e)]]

\* HybridSearchEngine.__init__: the embedder's configuration, the caches as
\* a first run finds them, and ensure_index, whose failure is swallowed
\* (FT.CREATE is refused without RediSearch, and with DIM 0)
\* no chat model and no debate graph: the variables of the agents rest
NoAgents ==
    /\ clients = 0
    /\ disabled = {}
    /\ active_idx = 0
    /\ everRaised = {}
    /\ round = 0
    /\ rounds = 0
    /\ stage = ""
    /\ first_side = ""
    /\ blocks = <<>>
    /\ node = "none"
    /\ executed = 0

Init ==
    /\ mode \in Modes
    /\ dim \in ConfigDims
    /\ ann \in IF dim > 0 THEN {"ready", "unsupported"} ELSE {"noindex"}
    /\ redis = <<>>
    /\ cold = <<>>
    /\ last = NoCall
    /\ first = NoFirst
    /\ unsupported = FALSE
    /\ coldFailed = FALSE
    /\ direct = NoOp
    /\ written = <<>>
    /\ sinceSet = <<>>
    /\ pc = <<>>
    /\ stModel = 0
    /\ built = 0
    /\ NoAgents

\* raw consists of blanks only
Blank(raw) == \A i \in 1..Len(raw) : raw[i] = " "

Has(steps, op, res) == \E i \in 1..Len(steps) : steps[i] = Step(op, res)

\* the backends answered every command of the call and the embedder gave a
\* vector that Redis took
Healthy(steps) ==
    /\ ~Has(steps, "get_exact", "raise")
    /\ ~Has(steps, "sqlite_get", "raise")
    /\ Has(steps, "searxng", "ok")
    /\ Has(steps, "sqlite_set", "ok")
    /\ Has(steps, "redis_set", "ok")

\* one call of search(raw) by the debater
Search ==
    /\ last = NoCall
    /\ \E before \in {Answers}, raw \in RawQueries :
         \E env \in Envs(raw) :
            \E r \in {SearchResult(raw, env)} :
                /\ redis' = r.redis
                /\ cold' = r.cold
                /\ last' = [blank |-> Blank(raw), query |-> r.query,
                            source |-> r.source, payload |-> r.payload,
                            steps |-> r.steps, env |-> env, knew |-> unsupported,
                            cachesEmpty |-> (DOMAIN redis = {} /\ DOMAIN cold = {}),
                            after |-> first, before |-> before]
                /\ first' = IF /\ DOMAIN redis = {} /\ DOMAIN cold = {}
                               /\ Healthy(r.steps)
                            THEN [query |-> r.query, payload |-> r.payload, age |-> 0]
                            ELSE NoFirst
                /\ unsupported' =
                       (unsupported \/ Has(r.steps, "search_similar", "unsupported"))
                /\ coldFailed' = (coldFailed \/ Has(r.steps, "sqlite_set", "raise"))
                /\ UNCHANGED <<agentVars, mode, dim, ann>>
                /\ UNCHANGED <<componentVars, threadVars>>

\* the caller takes the outcome (debater.py appends it to its snippets)
Consume ==
    /\ last # NoCall
    /\ last' = NoCall
    /\ UNCHANGED <<agentVars, mode, dim, ann, redis, cold, first, unsupported, coldFailed>>
    /\ UNCHANGED <<componentVars, threadVars>>

\* the hash under a key one hour later
Aged(h) == IF h.expires THEN [h EXCEPT !.ttl = h.ttl - 1] ELSE h

\* one hour passes: Redis drops the keys whose expiry is reached
Tick ==
    /\ last = NoCall
    /\ \E k \in DOMAIN redis : redis[k].expires
    /\ redis' = [k \in {x \in DOMAIN redis : Aged(redis[x]).ttl > 0
                                             \/ ~redis[x].expires} |->
                    Aged(redis[k])]
    /\ first' = IF first = NoFirst \/ first.age = TTL THEN first
                ELSE [first EXCEPT !.age = first.age + 1]
    /\ UNCHANGED <<agentVars, mode, dim, ann, cold, last, unsupported, coldFailed>>
    /\ UNCHANGED <<componentVars, threadVars>>

Next == Search \/ Consume \/ Tick

Spec == Init /\ [][Next]_vars

---------------------------------------------------------------------------
(* Properties of one call *)

Sources == {"redis_exact", "redis_semantic", "sqlite", "searxng", "degraded"}

Called == last # NoCall

TierOrder == <<"get_exact", "search_similar", "sqlite_get", "searxng">>

Rank(op) == CHOOSE n \in 1..Len(TierOrder) : TierOrder[n] = op

IsLookup(step) == \E n \in 1..Len(TierOrder) : TierOrder[n] = step.op

Lookups == SelectSeq(last.steps, IsLookup)

NoAnswer == {"miss", "raise", "unsupported"}

\* the tier gave no payload: its lookup missed or failed, or (the semantic
\* tier) the embedding it needs could not be computed
GaveNothing(op) ==
    \/ \E i \in 1..Len(last.steps) :
          last.steps[i].op = op /\ last.steps[i].res \in NoAnswer
    \/ op = "search_similar" /\ Has(last.steps, "embed", "raise")
                             /\ ~Has(last.steps, "search_similar", "hit")

\* C1: search is total: whatever each tier does (answer, miss or raise),
\* the call returns an outcome with one of the five source tags and a
\* payload that has a result list; no exception leaves search.
C1_SearchIsTotal ==
    Called => /\ last.source \in Sources
              /\ "results" \in DOMAIN last.payload
              /\ last.query \in Texts

\* a call in which the exact, semantic and cold lookups and both writes raised
C1_Witness ==
    /\ Called
    /\ Has(last.steps, "get_exact", "raise")
    /\ Has(last.steps, "search_similar", "raise")
    /\ Has(last.steps, "sqlite_get", "raise")
    /\ Has(last.steps, "sqlite_set", "raise")
    /\ Has(last.steps, "redis_set", "raise")
    /\ last.source = "searxng"

\* C2: on a non-empty query the tiers are consulted in the order exact,
\* semantic, cold, live, each at most once and only when every earlier tier
\* gave nothing; nothing is consulted after a hit; the source tag names the
\* tier whose payload is returned, and is degraded only when none gave one.
C2_TierOrder ==
    (Called /\ ~last.blank) =>
      \E L \in {Lookups} :
        /\ Len(L) >= 1 /\ L[1].op = "get_exact"
        /\ \A i, j \in 1..Len(L) : i < j => Rank(L[i].op) < Rank(L[j].op)
        /\ \A j \in 1..Len(L) :
               \A n \in 1..(Rank(L[j].op) - 1) : GaveNothing(TierOrder[n])
        /\ \A i \in 1..Len(last.steps) :
               last.steps[i].res = "hit" => i = Len(last.steps)
        /\ last.source = "redis_exact" <=> Has(last.steps, "get_exact", "hit")
        /\ last.source = "redis_exact" =>
               last.payload = Loads(redis[MakeKey(StableId(last.query))].payload_json)
        /\ last.source = "redis_semantic" <=> Has(last.steps, "search_similar", "hit")
        /\ last.source = "redis_semantic" =>
               \E k \in DOMAIN redis : last.payload = Loads(redis[k].payload_json)
        /\ last.source = "sqlite" <=> Has(last.steps, "sqlite_get", "hit")
        /\ last.source = "sqlite" => last.payload = Loads(cold[last.query])
        /\ last.source = "searxng" <=> Has(last.steps, "searxng", "ok")
        /\ last.source = "searxng" =>
               last.payload = [query |-> last.query,
                               results |-> FirstK(last.env.results, MaxKept)]
        /\ last.source = "degraded" <=>
               \A n \in 1..Len(TierOrder) : GaveNothing(TierOrder[n])

\* a call that went through all four tiers and was answered by the last
C2_Witness ==
    /\ Called
    /\ [i \in 1..Len(Lookups) |-> Lookups[i].op] = TierOrder
    /\ last.source = "searxng"
    /\ Has(last.steps, "search_similar", "miss")

\* C3: for an empty or all-blank query, search returns degraded with an
\* empty result list and touches no tier: no lookup, no embedding, no live
\* fetch and no cache write.
C3_BlankQueryTouchesNothing ==
    (Called /\ last.blank) =>
        /\ last.source = "degraded"
        /\ last.payload = EmptyResults
        /\ last.steps = <<>>

\* a call with a blank query, made when the caches hold entries
C3_Witness ==
    /\ Called
    /\ last.blank
    /\ DOMAIN redis # {}
    /\ DOMAIN cold # {}

\* the steps of a call with the failed lookups of one tier read as misses
AsMiss(steps, op) ==
    [i \in 1..Len(steps) |->
        IF steps[i].op = op /\ steps[i].res \in {"raise", "unsupported"}
        THEN Step(op, "miss") ELSE steps[i]]

\* two calls end alike: same outcome, same stores, and the same tier calls
\* once the failures of tier op in the first are read as misses
SameButFor(r1, r2, op) ==
    /\ r1.source = r2.source
    /\ r1.payload = r2.payload
    /\ r1.redis = r2.redis
    /\ r1.cold = r2.cold
    /\ AsMiss(r1.steps, op) = r2.steps

\* a step of the model in which search is called on a non-blank query
IsSearchStep == last = NoCall /\ last' # NoCall /\ ~last'.blank

\* the call of that step as a result of search
Taken ==
    [query |-> last'.query, source |-> last'.source, payload |-> last'.payload,
     steps |-> last'.steps, redis |-> redis', cold |-> cold']

\* C4: a failure of the exact, semantic or cold lookup (backend down,
\* unsupported, any exception) is indistinguishable from a miss of that
\* lookup: the call has the same outcome, leaves the same stores and makes
\* the same later tier calls as the call in which that lookup answers and
\* misses; after a failed semantic lookup the call goes on as it does after
\* a semantic miss; and exact miss + semantic unsupported + cold hit returns
\* source sqlite with the payload of the cold row.
C4_FailureIsMiss ==
    [][IsSearchStep =>
        LET q == last'.query
            e == last'.env
        IN  /\ (Has(Taken.steps, "get_exact", "raise")
                    /\ GetExact(q, TRUE).res = "miss") =>
                 \E r \in {SearchResult(q, [e EXCEPT !.exact = TRUE])} :
                     SameButFor(Taken, r, "get_exact")
            /\ (Has(Taken.steps, "sqlite_get", "raise")
                    /\ SqliteGet(q, TRUE).res = "miss") =>
                 \E r \in {SearchResult(q, [e EXCEPT !.cold = TRUE])} :
                     SameButFor(Taken, r, "sqlite_get")
            /\ (Has(Taken.steps, "search_similar", "raise")
                    /\ SearchSimilar(Embed(q, e.model), K, TRUE, e.nearest).res
                         = "miss") =>
                 \E r \in {SearchResult(q, [e EXCEPT !.sem = TRUE])} :
                     SameButFor(Taken, r, "search_similar")
            /\ (Has(Taken.steps, "search_similar", "raise")
                    \/ Has(Taken.steps, "search_similar", "unsupported")) =>
                 \E r \in {FromCold(q, Embed(q, e.model),
                                     <<Taken.steps[1], Step("embed", "ok"),
                                       Step("search_similar", "miss")>>, e)} :
                     SameButFor(Taken, r, "search_similar")
            /\ (Has(Taken.steps, "get_exact", "miss")
                    /\ Has(Taken.steps, "search_similar", "unsupported")
                    /\ Has(Taken.steps, "sqlite_get", "hit")) =>
                 /\ Taken.source = "sqlite"
                 /\ Taken.payload = Loads(cold[q])
                 /\ ~Has(Taken.steps, "searxng", "ok")
                 /\ ~Has(Taken.steps, "searxng", "raise")
      ]_vars

\* a call whose exact lookup raised on a key Redis does not hold, whose
\* semantic lookup was unsupported, and which the cold cache answered
C4_Witness ==
    /\ Called
    /\ Has(last.steps, "get_exact", "raise")
    /\ MakeKey(StableId(last.query)) \notin DOMAIN redis
    /\ Has(last.steps, "search_similar", "unsupported")
    /\ Has(last.steps, "sqlite_get", "hit")
    /\ last.source = "sqlite"

\* C5: on a non-blank query, when the live fetch fails the call returns
\* degraded with results == [] (the three cache tiers having given nothing),
\* and the call returns degraded only then: no failure of a lookup, of the
\* embedder or of a write-back makes the outcome degraded.
C5_OnlyLiveFailureDegrades ==
    (Called /\ ~last.blank) =>
        /\ Has(last.steps, "searxng", "raise") =>
              /\ last.source = "degraded"
              /\ last.payload = EmptyResults
              /\ last.steps[Len(last.steps)] = Step("searxng", "raise")
              /\ \A n \in 1..3 : GaveNothing(TierOrder[n])
        /\ last.source = "degraded" => Has(last.steps, "searxng", "raise")

\* a call in which all four tiers raised
C5_Witness ==
    /\ Called
    /\ Has(last.steps, "get_exact", "raise")
    /\ Has(last.steps, "search_similar", "raise")
    /\ Has(last.steps, "sqlite_get", "raise")
    /\ Has(last.steps, "searxng", "raise")
    /\ last.source = "degraded"

Available(env) ==
    /\ env.exact /\ env.sem /\ env.cold /\ env.live /\ env.coldw
    /\ env.redisw = "ok"

C8_UnsupportedIsRemembered ==
    (Called /\ last.knew) =>
        \A i \in 1..Len(last.steps) : last.steps[i].op # "search_similar"

\* two results of search with the same source and payload
SameAnswer(r1, r2) == r1.source = r2.source /\ r1.payload = r2.payload

\* C9 as stated: for distinct non-empty q1 and q2, a call search(q1) leaves
\* the outcome (source and payload) of search(q2) as it was.
C9_QueriesIndependent ==
    (Called /\ ~last.blank) =>
        \A q2 \in Texts \ {<<>>, last.query} :
            \A e \in LaterEnvs :
                \E after \in {SearchResult(q2, e)} :
                    SameAnswer(last.before[q2][e], after)

\* C9, amended: for distinct non-empty q1 and q2, a call search(q1) leaves
\* the outcome of search(q2) as it was unless search(q2) is then answered by
\* the semantic tier, which ranks the entries search(q1) has written.
C9_IndependentButSemantic ==
    (Called /\ ~last.blank) =>
        \A q2 \in Texts \ {<<>>, last.query} :
            \A e \in LaterEnvs :
                \E after \in {SearchResult(q2, e)} :
                    \/ SameAnswer(last.before[q2][e], after)
                    \/ after.source = "redis_semantic"

\* a call search(q1) that wrote q1 back to both stores while the stores
\* held the entry of another query q2
C9_Witness ==
    /\ Called
    /\ last.source = "searxng"
    /\ Has(last.steps, "sqlite_set", "ok")
    /\ Has(last.steps, "redis_set", "ok")
    /\ \E q2 \in DOMAIN cold : q2 # last.query
    /\ \E k \in DOMAIN redis : redis[k].query # last.query

\* the queries that have an entry in Redis
RedisQueries == {redis[k].query : k \in DOMAIN redis}

C29_ColdHitBackfillsRedis ==
    (Called /\ last.source = "sqlite" /\ last.env.exact /\ last.env.sem
       /\ last.env.redisw = "ok") =>
        /\ last.payload = Loads(cold[last.query])
        /\ MakeKey(StableId(last.query)) \in DOMAIN redis
        /\ Answer(last.query, DefaultEnv).source \in {"redis_exact", "redis_semantic"}

\* a step of search that returns
IsCallStep == last = NoCall /\ last' # NoCall

C31_EveryEntryExpires ==
    \A k \in DOMAIN redis : redis[k].expires /\ redis[k].ttl <= TTL

\* the calls of embed the last search made, in order
EmbedSteps == SelectSeq(last.steps, LAMBDA st : st.op = "embed")

\* C32: a search call computes the embedding of the query at most twice,
\* and a second time only when the first computation raised: when the
\* computation of the semantic step succeeded it is the only one, and the
\* write-back after a live hit stores that vector in Redis.
C32_EmbedOnceUnlessRaised ==
    Called =>
        /\ Len(EmbedSteps) <= 2
        /\ Len(EmbedSteps) = 2 => EmbedSteps[1].res = "raise"
        /\ (Len(EmbedSteps) >= 1 /\ EmbedSteps[1].res = "ok"
              /\ Has(last.steps, "redis_set", "ok")) =>
                redis[MakeKey(StableId(last.query))].embedding
                    = Embed(last.query, last.env.model)

\* a live hit written back with the vector of the semantic step, whose
\* lookup in Redis had raised
C32_Witness ==
    /\ Called
    /\ last.source = "searxng"
    /\ Len(EmbedSteps) = 1
    /\ EmbedSteps[1].res = "ok"
    /\ Has(last.steps, "search_similar", "raise")
    /\ Has(last.steps, "redis_set", "ok")

\* the entry the index ranks first for a call made with backends env
FirstNeighbour(env) ==
    IF env.nearest \in DOMAIN redis THEN env.nearest
    ELSE SetToSeq(DOMAIN redis)[1]

\* C33: when the index exists, Redis answers FT.SEARCH, the query is embedded
\* and Redis holds at least one entry, a search of a non-empty query that
\* the exact lookup does not answer returns source redis_semantic with the
\* payload of the entry ranked first, whatever its score and the query it
\* was stored for; neither the SQLite table nor the live provider is asked.
C33_TopOneAccepted ==
    [][(/\ IsCallStep
        /\ ~last'.blank
        /\ last'.source # "redis_exact"
        /\ ann = "ready"
        /\ last'.env.sem
        /\ Len(last'.steps) >= 2
        /\ last'.steps[2] = Step("embed", "ok")
        /\ DOMAIN redis # {})
       => /\ last'.source = "redis_semantic"
          /\ last'.payload = Loads(redis[FirstNeighbour(last'.env)].payload_json)
          /\ \A i \in 1..Len(last'.steps) :
                last'.steps[i].op \notin {"sqlite_get", "searxng"}]_vars

\* a semantic hit that returns the payload stored for another query
C33_Witness ==
    /\ Called
    /\ last.source = "redis_semantic"
    /\ last.payload.query # last.query
    /\ MakeKey(StableId(last.query)) \notin DOMAIN redis
    /\ last.query \in DOMAIN cold

\* C34: once the SQLite table holds a row for q, written by the write-back
\* of a live hit, no later search(q) during which SQLite answers calls the
\* live provider, whatever Redis holds and whether it answers.
C34_NoLiveCallOnceCold ==
    [][(/\ IsCallStep
        /\ ~last'.blank
        /\ last'.query \in DOMAIN cold
        /\ last'.env.cold)
       => \A i \in 1..Len(last'.steps) : last'.steps[i].op # "searxng"]_vars

\* a query answered from the SQLite table while Redis did not answer
C34_Witness ==
    /\ Called
    /\ last.source = "sqlite"
    /\ Has(last.steps, "get_exact", "raise")
    /\ last.payload = Loads(cold[last.query])

---------------------------------------------------------------------------
(* SqliteCache called directly: any sequence of set and get *)

\* the query strings of the direct calls: a text with and without blanks
\* around it, and another text
ColdQueries == {q \in RawQueries : Strip(q) = <<"a">>} \cup {<<"b">>}

\* the payloads of the direct calls
Payloads == {[query |-> <<"a">>, results |-> rs] : rs \in ResultLists}

\* SqliteCache.set(q, p) is called
ColdSet ==
    \E q \in ColdQueries, p \in Payloads, up \in BOOLEAN :
        \E r \in {SqliteSet(q, p, up)} :
            /\ cold' = r.cold
            /\ direct' = [name |-> "sqlite_set", query |-> q, payload |-> p,
                          res |-> r.res,
                          replaced |-> (q \in DOMAIN cold /\ r.cold # cold)]
            /\ written' = IF r.res = "ok" THEN (q :> p) @@ written ELSE written
            /\ UNCHANGED <<agentVars, mode, dim, ann, redis, resolverVars, sinceSet, threadVars>>

\* SqliteCache.get(q) is called
ColdGet ==
    \E q \in ColdQueries, up \in BOOLEAN :
        \E r \in {SqliteGet(q, up)} :
            /\ direct' = [name |-> "sqlite_get", query |-> q, payload |-> r.payload,
                          res |-> r.res]
            /\ UNCHANGED <<agentVars, mode, dim, ann, redis, cold, resolverVars, written,
                           sinceSet, threadVars>>

ColdNext == ColdSet \/ ColdGet

SpecCold == Init /\ [][ColdNext]_vars

\* C11: the SQLite table is last-write-wins without expiry: after any
\* sequence of set and get, get(q) returns the payload of the latest
\* set(q, .) that returned, and misses exactly when no set(q, .) has
\* returned; so set(q, .) leaves what get returns for every other query
\* unchanged, and the table has one row per query string.
C11_ColdLastWriteWins ==
    /\ \A q \in ColdQueries :
          \E g \in {SqliteGet(q, TRUE)} :
              IF q \in DOMAIN written
              THEN g.res = "hit" /\ g.payload = written[q]
              ELSE g.res = "miss"
    /\ (direct.name = "sqlite_get" /\ direct.res # "raise") =>
          IF direct.query \in DOMAIN written
          THEN direct.res = "hit" /\ direct.payload = written[direct.query]
          ELSE direct.res = "miss"
    /\ DOMAIN cold = DOMAIN written

\* a set has replaced the row of its query while the table held the row of
\* another query, set with the other payload
C11_Witness ==
    /\ direct.name = "sqlite_set"
    /\ direct.res = "ok"
    /\ direct.replaced
    /\ \E q2 \in DOMAIN written :
          q2 # direct.query /\ written[q2] # direct.payload

---------------------------------------------------------------------------
(* RedisVectorCache called directly: any sequence of ensure_index, set,   *)
(* get_exact and search_similar, with hours passing                       *)

\* the query strings of the direct calls on Redis
DirectQueries == ColdQueries

\* an embedding of n numbers for a query
Vector(q, n) == [res |-> "ok", text |-> Strip(q), len |-> n]

\* what get_exact returns for each query in the current state
ExactAnswers == [q \in DirectQueries |-> GetExact(q, TRUE)]

\* a RedisVectorCache is constructed; ensure_index has not been called
RedisInit ==
    /\ mode = "hash"
    /\ dim \in ConfigDims
    /\ ann \in {"noindex", "unsupported"}
    /\ redis = <<>>
    /\ cold = <<>>
    /\ last = NoCall
    /\ first = NoFirst
    /\ unsupported = FALSE
    /\ coldFailed = FALSE
    /\ direct = NoOp
    /\ written = <<>>
    /\ sinceSet = <<>>
    /\ pc = <<>>
    /\ stModel = 0
    /\ built = 0
    /\ NoAgents

\* ensure_index() is called
RedisEnsureIndex ==
    \E up \in BOOLEAN :
        \E r \in {EnsureIndex(up)} :
            /\ direct = NoOp
            /\ ann' = r.ann
            /\ direct' = [name |-> "ensure_index", up |-> up, res |-> r.res,
                          found |-> ann, entries |-> redis]
            /\ UNCHANGED <<agentVars, mode, dim, redis, cold, resolverVars, written, sinceSet,
                           threadVars>>

\* set(q, p, embedding) is called
RedisSetCall ==
    /\ direct = NoOp
    /\ \E before \in {ExactAnswers}, q \in DirectQueries, p \in Payloads,
          n \in ConfigDims, outcome \in {"ok", "fail", "noexpire"} :
        \E r \in {RedisSet(q, p, Vector(q, n), outcome)} :
            LET key == MakeKey(StableId(q))
            IN  /\ redis' = r.redis
                /\ direct' = [name |-> "redis_set", query |-> q, payload |-> p,
                              len |-> n, res |-> r.res, entries |-> redis,
                              exact |-> before]
                /\ sinceSet' =
                      IF r.res = "ok"
                      THEN (key :> [age |-> 0, dirty |-> FALSE]) @@ sinceSet
                      ELSE IF r.redis # redis /\ key \in DOMAIN sinceSet
                      THEN [sinceSet EXCEPT ![key].dirty = TRUE]
                      ELSE sinceSet
                /\ UNCHANGED <<agentVars, mode, dim, ann, cold, resolverVars, written, threadVars>>

\* get_exact(q) is called
RedisGetExact ==
    \E q \in DirectQueries, up \in BOOLEAN :
        \E r \in {GetExact(q, up)} :
            /\ direct = NoOp
            /\ direct' = [name |-> "get_exact", query |-> q, res |-> r.res,
                          payload |-> r.payload]
            /\ UNCHANGED <<agentVars, mode, dim, ann, redis, cold, resolverVars, written,
                           sinceSet, threadVars>>

\* search_similar(embedding, k=3) is called
RedisSearchSimilar ==
    \E q \in DirectQueries, n \in ConfigDims, up \in BOOLEAN, nearest \in Nearest :
        \E r \in {SearchSimilar(Vector(q, n), K, up, nearest)} :
            /\ direct = NoOp
            /\ direct' = [name |-> "search_similar", len |-> n, up |-> up,
                          res |-> r.res, hits |-> r.hits]
            /\ UNCHANGED <<agentVars, mode, dim, ann, redis, cold, resolverVars, written,
                           sinceSet, threadVars>>

\* one hour passes
RedisTick ==
    /\ direct = NoOp
    /\ \E k \in DOMAIN redis : redis[k].expires
    /\ redis' = [k \in {x \in DOMAIN redis : Aged(redis[x]).ttl > 0
                                             \/ ~redis[x].expires} |->
                    Aged(redis[k])]
    /\ sinceSet' = [k \in DOMAIN sinceSet |->
                      IF sinceSet[k].age = TTL THEN sinceSet[k]
                      ELSE [sinceSet[k] EXCEPT !.age = sinceSet[k].age + 1]]
    /\ UNCHANGED <<agentVars, mode, dim, ann, cold, resolverVars, direct, written, threadVars>>

\* the caller of a direct call takes what it returned
DirectReturn ==
    /\ direct # NoOp
    /\ direct' = NoOp
    /\ UNCHANGED <<agentVars, mode, dim, ann, redis, cold, resolverVars, written, sinceSet,
                   threadVars>>

RedisNext ==
    \/ DirectReturn
    \/ RedisEnsureIndex
    \/ RedisSetCall
    \/ RedisGetExact
    \/ RedisSearchSimilar
    \/ RedisTick

SpecRedis == RedisInit /\ [][RedisNext]_vars

\* C12: after set(q, p, emb) has returned, with emb of the configured
\* dimension, get_exact(q') returns p for every q' whose stripped text is
\* that of q, and returns what it returned before the set for every q' of
\* another stripped text.
C12_ExactRoundTrip ==
    (direct.name = "redis_set" /\ direct.res = "ok") =>
        \A q2 \in DirectQueries :
            \E g \in {GetExact(q2, TRUE)} :
                IF Strip(q2) = Strip(direct.query)
                THEN g.res = "hit" /\ g.payload = direct.payload
                ELSE g = direct.exact[q2]

\* a set of a query with blanks around it over another payload of the same
\* text, while the entry of another text is held
C12_Witness ==
    /\ direct.name = "redis_set"
    /\ direct.res = "ok"
    /\ direct.query # Strip(direct.query)
    /\ direct.exact[Strip(direct.query)].res = "hit"
    /\ direct.exact[Strip(direct.query)].payload # direct.payload
    /\ \E q2 \in DirectQueries :
          Strip(q2) # Strip(direct.query) /\ direct.exact[q2].res = "hit"

\* C13: an entry whose latest set returned less than TTL ago is returned by
\* get_exact; once TTL has elapsed since that set it is a miss, unless a
\* set has written to the key since; a set that returns restarts the
\* countdown at TTL, whatever was left of the earlier one.
C13_TtlFromLatestSet ==
    /\ \A q \in DirectQueries :
          LET key == MakeKey(StableId(q))
          IN  key \in DOMAIN sinceSet =>
                /\ sinceSet[key].age < TTL =>
                      /\ GetExact(q, TRUE).res = "hit"
                      /\ redis[key].expires
                      /\ redis[key].ttl = TTL - sinceSet[key].age
                /\ (sinceSet[key].age >= TTL /\ ~sinceSet[key].dirty) =>
                      GetExact(q, TRUE).res = "miss"
    /\ (direct.name = "redis_set" /\ direct.res = "ok") =>
          LET key == MakeKey(StableId(direct.query))
          IN  /\ sinceSet[key].age = 0
              /\ redis[key].expires
              /\ redis[key].ttl = TTL

\* a set of a query whose entry had one hour left, after which the entry
\* has the whole TTL again
C13_Witness ==
    /\ direct.name = "redis_set"
    /\ direct.res = "ok"
    /\ MakeKey(StableId(direct.query)) \in DOMAIN direct.entries
    /\ direct.entries[MakeKey(StableId(direct.query))].expires
    /\ direct.entries[MakeKey(StableId(direct.query))].ttl = TTL - 1
    /\ redis[MakeKey(StableId(direct.query))].ttl = TTL

\* C14: set with an embedding whose length is not vector_dim raises before
\* any write, whatever the backend would do: every entry, that of the same
\* query included, and its expiry are as before; search_similar with such
\* an embedding raises whatever the state of the backend and of the index.
C14_DimensionGuard ==
    /\ \A q \in DirectQueries, p \in Payloads, n \in ConfigDims,
          outcome \in {"ok", "fail", "noexpire"} :
          n # dim =>
            \E r \in {RedisSet(q, p, Vector(q, n), outcome)} :
                r.res = "raise" /\ r.redis = redis
    /\ \A q \in DirectQueries, n \in ConfigDims, up \in BOOLEAN, nearest \in Nearest :
          n # dim => SearchSimilar(Vector(q, n), K, up, nearest).res = "raise"
    /\ (direct.name = "redis_set" /\ direct.len # dim) =>
          direct.res = "raise" /\ redis = direct.entries
    /\ (direct.name = "search_similar" /\ direct.len # dim) =>
          direct.res = "raise" /\ direct.hits = <<>>

\* a set with a wrong-length embedding for a query that has an entry with
\* an expiry
C14_Witness ==
    /\ direct.name = "redis_set"
    /\ direct.len # dim
    /\ direct.res = "raise"
    /\ MakeKey(StableId(direct.query)) \in DOMAIN redis
    /\ redis[MakeKey(StableId(direct.query))].expires
    /\ redis[MakeKey(StableId(direct.query))].payload_json # Dumps(direct.payload)

\* C16: ensure_index is idempotent: called when the index exists it returns
\* without raising and leaves the index and the entries as they are, and a
\* second call in succession returns as the first did and changes nothing;
\* it raises exactly on a backend error other than already-exists.
C16_EnsureIndexIdempotent ==
    direct.name = "ensure_index" =>
        /\ redis = direct.entries
        /\ (direct.found = "ready" /\ direct.up) =>
              direct.res = "ok" /\ ann = "ready"
        /\ \E again \in {EnsureIndex(direct.up)} :
              again.res = direct.res /\ again.ann = ann
        /\ direct.res = "ok" <=> ann = "ready" /\ direct.up
        /\ direct.res = "raise" <=>
              \/ ~direct.up
              \/ direct.found = "unsupported"
              \/ direct.found = "noindex" /\ dim <= 0

\* ensure_index called on an index that exists, with entries stored
C16_Witness ==
    /\ direct.name = "ensure_index"
    /\ direct.found = "ready"
    /\ direct.res = "ok"
    /\ DOMAIN redis # {}

---------------------------------------------------------------------------
(* Embedder called directly: any sequence of embed calls on one instance *)

\* the texts embedded: none, a blank, the words, and the words between blanks
EmbedTexts ==
    {<<>>, <<" ">>} \cup EmbedWords \cup {<<" ">> \o w \o <<" ">> : w \in EmbedWords}

\* the values of Embedder.dim: the default, DEBATE_ARENA_EMBED_DIM of the
\* offline test, and values the environment may set
EmbedDims == ConfigDims \cup {1, 64}

\* embed goes through _hash_embed: in hash mode, and on the fallback of the
\* modes that are neither hash nor st
UsesHash(modelUp) == mode = "hash" \/ (mode # "st" /\ ~modelUp)

\* an Embedder is constructed
EmbedInit ==
    /\ mode \in Modes
    /\ dim \in EmbedDims
    /\ ann = "noindex"
    /\ redis = <<>>
    /\ cold = <<>>
    /\ last = NoCall
    /\ first = NoFirst
    /\ unsupported = FALSE
    /\ coldFailed = FALSE
    /\ direct = NoOp
    /\ written = <<>>
    /\ sinceSet = <<>>
    /\ pc = <<>>
    /\ stModel = 0
    /\ built = 0
    /\ NoAgents

\* embed(text) is called; earlier: the vectors _hash_embed has returned to
\* the calls before this one, by text
EmbedCall ==
    \E text \in EmbedTexts, modelUp \in ModelStates :
        \E r \in {Embed(text, modelUp)} :
            \E v \in {IF r.res = "ok" /\ UsesHash(modelUp)
                      THEN HashVector(text, dim) ELSE [len |-> r.len]} :
                /\ direct' =
                      [name |-> "embed", text |-> text, modelUp |-> modelUp,
                       res |-> r.res, hashed |-> UsesHash(modelUp), vector |-> v,
                       earlier |-> IF direct = NoOp THEN <<>>
                                   ELSE IF direct.hashed
                                   THEN (direct.text :> direct.vector) @@ direct.earlier
                                   ELSE direct.earlier]
                /\ UNCHANGED <<agentVars, mode, dim, ann, redis, cold, resolverVars, written,
                               sinceSet, threadVars>>

EmbedNext == EmbedCall

SpecEmbed == EmbedInit /\ [][EmbedNext]_vars

\* C15: the length of every vector the embedder returns equals the
\* vector_dim of the resolver's Redis cache, int(embedder.dim), whatever the
\* mode and the dimension configured.
C15_DimensionsAgree ==
    (direct.name = "embed" /\ direct.res = "ok") => direct.vector.len = dim

C18_UnitNormUnlessBlank ==
    (direct.name = "embed" /\ mode = "hash" /\ dim > 0) =>
        IF Strip(direct.text) = <<>>
        THEN direct.vector.counts = <<>>
        ELSE direct.vector.counts # <<>>

\* C19: embed never raises: when the mode is not hash and the model fails
\* to load or to encode, embed returns the hash embedding of the text.
C19_EmbedNeverFails ==
    (direct.name = "embed" /\ mode # "hash" /\ ~direct.modelUp) =>
        /\ direct.res = "ok"
        /\ direct.vector = HashVector(direct.text, dim)

---------------------------------------------------------------------------
(* Embedder._st_embed run by several threads on one Embedder: each thread
   makes one call of embed, and the threads interleave between the
   statements of _st_embed.  pc[t] is the thread's position, with the
   instance it constructed (made) and the one it encoded with (used);
   stModel is self._model (0 for None), built the number of times the
   constructor SentenceTransformer(...) has returned. *)

MaxThreads == 2

Threads == 1..MaxThreads

Idle == [at |-> "idle", made |-> 0, used |-> 0]

\* an Embedder in a mode that is not hash, self._model = None, no call yet
ThreadInit ==
    /\ mode \in Modes \ {"hash"}
    /\ dim \in ConfigDims
    /\ ann = "noindex"
    /\ redis = <<>>
    /\ cold = <<>>
    /\ last = NoCall
    /\ first = NoFirst
    /\ unsupported = FALSE
    /\ coldFailed = FALSE
    /\ direct = NoOp
    /\ written = <<>>
    /\ sinceSet = <<>>
    /\ pc = [t \in Threads |-> Idle]
    /\ stModel = 0
    /\ built = 0
    /\ NoAgents

ThreadUnchanged ==
    UNCHANGED <<agentVars, mode, dim, ann, redis, cold, resolverVars, componentVars>>

\* where an exception of _st_embed takes embed: out of it in the st modes,
\* to _hash_embed in the others
Raised == IF mode = "st" THEN "raised" ELSE "hashed"

\* embed(text) enters _st_embed
StCall(t) ==
    /\ pc[t].at = "idle"
    /\ pc' = [pc EXCEPT ![t].at = "test"]
    /\ UNCHANGED <<stModel, built>>
    /\ ThreadUnchanged

\* if self._model is None
StTest(t) ==
    /\ pc[t].at = "test"
    /\ pc' = [pc EXCEPT ![t].at = IF stModel = 0 THEN "construct" ELSE "encode"]
    /\ UNCHANGED <<stModel, built>>
    /\ ThreadUnchanged

\* the import and SentenceTransformer(self.model_name): a new instance, or
\* an exception
StConstruct(t) ==
    /\ pc[t].at = "construct"
    /\ \E modelUp \in ModelStates :
          IF modelUp
          THEN /\ built' = built + 1
               /\ pc' = [pc EXCEPT ![t].at = "assign", ![t].made = built + 1]
          ELSE /\ built' = built
               /\ pc' = [pc EXCEPT ![t].at = Raised]
    /\ UNCHANGED stModel
    /\ ThreadUnchanged

\* self._model = <the instance constructed>
StAssign(t) ==
    /\ pc[t].at = "assign"
    /\ stModel' = pc[t].made
    /\ pc' = [pc EXCEPT ![t].at = "encode"]
    /\ UNCHANGED built
    /\ ThreadUnchanged

\* self._model.encode(...): with the instance self._model holds now
StEncode(t) ==
    /\ pc[t].at = "encode"
    /\ \E modelUp \in ModelStates :
          pc' = [pc EXCEPT ![t].at = IF modelUp THEN "returned" ELSE Raised,
                           ![t].used = stModel]
    /\ UNCHANGED <<stModel, built>>
    /\ ThreadUnchanged

ThreadNext ==
    \E t \in Threads :
        StCall(t) \/ StTest(t) \/ StConstruct(t) \/ StAssign(t) \/ StEncode(t)

SpecThreads == ThreadInit /\ [][ThreadNext]_vars

\* C20: under any interleaving of the calls of embed on one Embedder in a
\* model-backed mode, the model constructor returns at most once, and all
\* calls that encode use the one instance it returned.
C20_ModelBuiltOnce ==
    /\ built <= 1
    /\ \A t \in Threads, u \in Threads :
          (pc[t].used # 0 /\ pc[u].used # 0) => pc[t].used = pc[u].used

---------------------------------------------------------------------------
(* DebaterAgent.generate_turn: the plan stage, the searches of the turn and
   the speech stage.  JSON values are records tagged with their type (t);
   a response of the LLM is either a text in which extract_json_object
   finds an object (kind "object") or a text of lines without one (kind
   "lines").  The search engine is the collaborator the agent was given:
   searched is the list of the arguments search was called with. *)

\* the longest search_queries list the LLM returns
MaxQueries == 4

\* for q in (...)[:3]
MaxSearches == 3

\* the LLM calls of a stage: the first output, three repairs, the skeleton
StageCalls == 5

JsonBool(b) == [t |-> "bool", v |-> b]
JsonNull == [t |-> "null"]
JsonStr(chars) == [t |-> "str", v |-> chars]
JsonNum(n) == [t |-> "num", v |-> n]
JsonList(items) == [t |-> "list", v |-> items]

\* bool(x) of Python on a JSON value
PyBool(x) ==
    CASE x.t = "bool" -> x.v
      [] x.t = "null" -> FALSE
      [] x.t = "num" -> x.v # 0
      [] x.t = "str" -> x.v # <<>>
      [] x.t = "list" -> x.v # <<>>

SeqsUpTo(S, n) == UNION {[1..k -> S] : k \in 0..n}

\* need_search as the LLM may give it: true, false, absent or null, and
\* the string "false"
NeedValues ==
    {JsonBool(TRUE), JsonBool(FALSE), JsonNull,
     JsonStr(<<"f", "a", "l", "s", "e">>)}

\* the elements of search_queries: a query between blanks, a blank string,
\* a number
QueryItems == {JsonStr(<<" ", "a", " ">>), JsonStr(<<" ">>), JsonNum(7)}

\* search_queries as the LLM may give it: a list, a string in place of the
\* list, absent or null, a number
QueryValues ==
    {JsonList(items) : items \in SeqsUpTo(QueryItems, MaxQueries)}
        \cup {JsonStr(<<"a", " ", "b", "c">>), JsonNull, JsonNum(7)}

Plans == [need_search : NeedValues, search_queries : QueryValues]

\* the plan of the except branch of _generate_plan
DefaultPlan == [need_search |-> JsonBool(FALSE), search_queries |-> JsonList(<<>>)]

NoLines == [kind |-> "lines", lines |-> <<>>]

ExtractJsonObject(text) ==
    IF text.kind = "object" THEN [res |-> "ok", obj |-> text.obj] ELSE [res |-> "raise"]

\* responses[1] is the first output, [2..4] answer the repair prompts and
\* [5] the skeleton prompt; the answer to the third repair prompt is not
\* parsed
ExtractJsonWithRetry(responses) ==
    LET Ok(i) == ExtractJsonObject(responses[i]).res = "ok"
    IN  IF Ok(1) THEN [res |-> "ok", obj |-> responses[1].obj, calls |-> 1]
        ELSE IF Ok(2) THEN [res |-> "ok", obj |-> responses[2].obj, calls |-> 2]
        ELSE IF Ok(3) THEN [res |-> "ok", obj |-> responses[3].obj, calls |-> 3]
        ELSE IF Ok(5) THEN [res |-> "ok", obj |-> responses[5].obj, calls |-> StageCalls]
        ELSE [res |-> "raise", calls |-> StageCalls]

GeneratePlan(responses) ==
    LET r == ExtractJsonWithRetry(responses)
    IN  IF r.res = "ok" THEN r.obj ELSE DefaultPlan

\* (x or [])[:3], as the list of the values the for loop binds q to
SliceQueries(x) ==
    CASE x.t = "list" -> [res |-> "ok", items |-> FirstK(x.v, MaxSearches)]
      [] x.t = "str" ->
            [res |-> "ok",
             items |-> [i \in 1..Len(FirstK(x.v, MaxSearches)) |-> JsonStr(<<x.v[i]>>)]]
      [] x.t = "null" -> [res |-> "ok", items |-> <<>>]
      [] x.t = "num" ->
            IF x.v = 0 THEN [res |-> "ok", items |-> <<>>] ELSE [res |-> "raise"]

\* isinstance(q, str) and q.strip()
IsQuery(q) == q.t = "str" /\ Strip(q.v) # <<>>

\* the mutant: the loop without its cut
SearchCallsUncut(plan) ==
    LET kept == SelectSeq(plan.search_queries.v, IsQuery)
    IN  IF PyBool(plan.need_search) /\ plan.search_queries.t = "list"
        THEN [res |-> "ok", searched |-> [i \in 1..Len(kept) |-> Strip(kept[i].v)]]
        ELSE [res |-> "ok", searched |-> <<>>]

\* the arguments of the calls of self._search.search, in order
SearchCalls(plan) ==
    IF ~PyBool(plan.need_search) THEN [res |-> "ok", searched |-> <<>>]
    ELSE LET s == SliceQueries(plan.search_queries)
         IN  IF s.res = "raise" THEN [res |-> "raise", searched |-> <<>>]
             ELSE LET kept == SelectSeq(s.items, IsQuery)
                  IN  [res |-> "ok",
                       searched |-> [i \in 1..Len(kept) |-> Strip(kept[i].v)]]

\* the full-width colon of the labels
Colon == "colon"

\* limits.get("max_chars_per_speech", 700)
MaxCharsDefault == 700

Bold == "**"

Newline == "nl"

Ellipsis == "..."

StartsWith(s, p) == Len(s) >= Len(p) /\ SubSeq(s, 1, Len(p)) = p

\* s.split(c, 1)[1]
AfterFirst(s, c) ==
    LET at == CHOOSE i \in 1..Len(s) : s[i] = c /\ \A j \in 1..(i - 1) : s[j] # c
    IN  SubSeq(s, at + 1, Len(s))

\* s.lstrip(c)
RECURSIVE LStripChar(_, _)
LStripChar(s, c) == IF s # <<>> /\ Head(s) = c THEN LStripChar(Tail(s), c) ELSE s

\* the line as the loop of _extract_fields_fallback looks at it: stripped,
\* a leading ">" and a leading "-" taken off
CleanLine(line) ==
    LET s0 == Strip(line)
        s1 == IF StartsWith(s0, <<">">>) THEN Strip(LStripChar(s0, ">")) ELSE s0
    IN  IF StartsWith(s1, <<"-">>) THEN Strip(LStripChar(s1, "-")) ELSE s1

\* the text s starts with the label of key k
HasLabel(s, k) ==
    \/ StartsWith(s, <<Bold, k, Bold, Colon>>)
    \/ StartsWith(s, <<k, Colon>>)
    \/ StartsWith(s, <<k, ":">>)

\* the index in keys of the first key whose label s starts with, 0 if none
MatchedKey(s, keys) ==
    IF \E i \in 1..Len(keys) : HasLabel(s, keys[i])
    THEN CHOOSE i \in 1..Len(keys) :
             HasLabel(s, keys[i]) /\ \A j \in 1..(i - 1) : ~HasLabel(s, keys[j])
    ELSE 0

\* (a + "\n" + b).strip() for stripped a and b
JoinLines(a, b) ==
    IF a = <<>> THEN b ELSE IF b = <<>> THEN a ELSE a \o <<Newline>> \o b

\* the loop over the lines, from line i on; current is the index of the key
\* of the last label met, 0 for None
RECURSIVE FallbackLines(_, _, _, _, _)
FallbackLines(lines, i, keys, out, current) ==
    IF i > Len(lines) THEN out
    ELSE LET s == CleanLine(lines[i])
             m == MatchedKey(s, keys)
         IN  IF s = <<>> THEN FallbackLines(lines, i + 1, keys, out, current)
             ELSE IF m # 0
             THEN LET val == IF \E j \in 1..Len(s) : s[j] = Colon
                             THEN Strip(AfterFirst(s, Colon))
                             ELSE Strip(AfterFirst(s, ":"))
                  IN  FallbackLines(lines, i + 1, keys,
                          [out EXCEPT ![keys[m]] = JoinLines(@, val)], m)
             ELSE IF current # 0
             THEN FallbackLines(lines, i + 1, keys,
                      [out EXCEPT ![keys[current]] = JoinLines(@, s)], current)
             ELSE FallbackLines(lines, i + 1, keys, out, current)

\* the text has a character that is not white space
NotBlank(text) == \E i \in 1..Len(text.lines) : Strip(text.lines[i]) # <<>>

\* _extract_fields_fallback(text, keys): a dict, <<>> for {}
ExtractFieldsFallback(text, keys) ==
    IF ~NotBlank(text) \/ keys = <<>> THEN <<>>
    ELSE FallbackLines(text.lines, 1, keys,
                       [k \in {keys[i] : i \in 1..Len(keys)} |-> <<>>], 0)

\* the mutant: the fallback reads the answer to the skeleton prompt
ExtractSpeechFromSkeleton(responses, required_fields) ==
    LET Ok(i) == ExtractJsonObject(responses[i]).res = "ok"
        fallback == ExtractFieldsFallback(responses[StageCalls], required_fields)
    IN  IF Ok(1) THEN [res |-> "ok", obj |-> responses[1].obj, calls |-> 1]
        ELSE IF Ok(2) THEN [res |-> "ok", obj |-> responses[2].obj, calls |-> 2]
        ELSE IF Ok(3) THEN [res |-> "ok", obj |-> responses[3].obj, calls |-> 3]
        ELSE IF Ok(5) THEN [res |-> "ok", obj |-> responses[5].obj, calls |-> StageCalls]
        ELSE IF fallback # <<>> THEN [res |-> "ok", obj |-> fallback, calls |-> StageCalls]
        ELSE [res |-> "raise", obj |-> <<>>, calls |-> StageCalls]

\* _extract_speech_with_retry: as _extract_json_with_retry, and when the
\* answer to the skeleton prompt does not parse either, the fallback on
\* text, which holds the answer to the third repair prompt
ExtractSpeechWithRetry(responses, required_fields) ==
    LET Ok(i) == ExtractJsonObject(responses[i]).res = "ok"
        fallback == ExtractFieldsFallback(responses[4], required_fields)
    IN  IF Ok(1) THEN [res |-> "ok", obj |-> responses[1].obj, calls |-> 1]
        ELSE IF Ok(2) THEN [res |-> "ok", obj |-> responses[2].obj, calls |-> 2]
        ELSE IF Ok(3) THEN [res |-> "ok", obj |-> responses[3].obj, calls |-> 3]
        ELSE IF Ok(5) THEN [res |-> "ok", obj |-> responses[5].obj, calls |-> StageCalls]
        ELSE IF fallback # <<>> THEN [res |-> "ok", obj |-> fallback, calls |-> StageCalls]
        ELSE [res |-> "raise", obj |-> <<>>, calls |-> StageCalls]

\* truncate_chars(text, max_chars)
TruncateChars(text, max_chars) ==
    IF max_chars <= 0 THEN <<>>
    ELSE IF Len(Strip(text)) <= max_chars THEN Strip(text)
    ELSE RStrip(SubSeq(Strip(text), 1, max_chars - 1)) \o <<Ellipsis>>

\* _generate_speech and the final cut of generate_turn: the content map
GenerateSpeech(responses, required_fields, max_chars) ==
    LET r == ExtractSpeechWithRetry(responses, required_fields)
    IN  IF r.res = "raise" THEN [res |-> "raise", content |-> <<>>, calls |-> r.calls]
        ELSE [res |-> "ok", calls |-> r.calls,
              content |-> [k \in {required_fields[i] : i \in 1..Len(required_fields)} |->
                              TruncateChars(IF k \in DOMAIN r.obj THEN Strip(r.obj[k])
                                            ELSE <<>>, max_chars)]]

\* output_schema.fields of the debate rules
FieldLists == {<<>>, <<"P">>, <<"P", "Q">>}

\* max_chars_per_speech of the chairman rules
MaxCharsValues == {MaxCharsDefault, 2}

\* a speech the LLM gives as a JSON object
SpeechObject ==
    [kind |-> "object", obj |-> ("P" :> <<"A">>) @@ ("Q" :> <<" ", "B">>),
     lines |-> <<<<"{", "P", ":", "A", "Q", ":", "B", "}">>>>]

Lines(lines) == [kind |-> "lines", lines |-> lines]

\* what the LLM may answer to the third repair prompt
SpeechTexts ==
    {SpeechObject, NoLines,
     Lines(<<<<Bold, "P", Bold, Colon, "A">>, <<Bold, "Q", Bold, Colon, "B">>, <<" ">>>>),
     Lines(<<<<"P", Colon, " ", "B", " ">>, <<"Q", Colon, "A", "B", "A">>>>),
     Lines(<<<<"P", Colon>>>>),
     Lines(<<<<" ", "P", Colon, "A", "B", "A", " ">>>>),
     Lines(<<<<">", " ", "P", Colon, "A">>, <<"-", " ", "Q", Colon, "B">>>>),
     Lines(<<<<"P", Colon, "A">>, <<"B">>>>),
     Lines(<<<<"P", ":", "A", Colon, "B">>>>),
     Lines(<<<<"A">>>>)}

\* a DebaterAgent is constructed, with an engine of the default embedder
TurnInit == Init /\ mode = "hash" /\ dim = DefaultDim

\* generate_turn up to the end of the search loop
TurnPlan ==
    /\ direct = NoOp
    /\ \E plan \in Plans, parsed \in SUBSET (1..StageCalls) :
          \E p \in {GeneratePlan([i \in 1..StageCalls |->
                        IF i \in parsed THEN [kind |-> "object", obj |-> plan]
                        ELSE NoLines])} :
              \E c \in {SearchCalls(p)} :
                  direct' = [name |-> "plan", plan |-> p, res |-> c.res,
                             searched |-> c.searched]
    /\ UNCHANGED <<agentVars, mode, dim, ann, redis, cold, resolverVars, written,
                   sinceSet, threadVars>>

\* generate_turn from _generate_speech on; responses[4] answers the third
\* repair prompt, the others are a JSON object or no text
TurnSpeech ==
    /\ direct.name = "plan"
    /\ direct.res = "ok"
    /\ \E parsed \in SUBSET {1, 2, 3, StageCalls}, third \in SpeechTexts,
          required_fields \in FieldLists, max_chars \in MaxCharsValues :
          \E responses \in {[i \in 1..StageCalls |->
                               IF i = 4 THEN third
                               ELSE IF i \in parsed THEN SpeechObject ELSE NoLines]} :
              \E r \in {GenerateSpeech(responses, required_fields, max_chars)} :
                  direct' = [name |-> "generate_turn", responses |-> responses,
                             required_fields |-> required_fields,
                             max_chars |-> max_chars, res |-> r.res,
                             content |-> r.content, calls |-> r.calls,
                             searches |-> Len(direct.searched)]
    /\ UNCHANGED <<agentVars, mode, dim, ann, redis, cold, resolverVars, written,
                   sinceSet, threadVars>>

\* generate_turn has returned or raised
TurnReturn ==
    /\ direct.name = "generate_turn" \/ (direct.name = "plan" /\ direct.res = "raise")
    /\ direct' = NoOp
    /\ UNCHANGED <<agentVars, mode, dim, ann, redis, cold, resolverVars, written,
                   sinceSet, threadVars>>

TurnNext == TurnPlan \/ TurnSpeech \/ TurnReturn

SpecTurn == TurnInit /\ [][TurnNext]_vars

\* C21: in a turn generate_turn calls search at most 3 times whatever plan
\* the LLM returns, not at all when the plan's need_search is false, and
\* never with a query that is empty or blank.
C21_AtMostThreeSearches ==
    direct.name = "plan" =>
        /\ Len(direct.searched) <= MaxSearches
        /\ direct.plan.need_search = JsonBool(FALSE) => direct.searched = <<>>
        /\ \A i \in 1..Len(direct.searched) : Strip(direct.searched[i]) # <<>>

\* a plan with more than three usable queries, after which search was
\* called three times
C21_Witness ==
    /\ direct.name = "plan"
    /\ direct.plan.search_queries.t = "list"
    /\ Len(SelectSeq(direct.plan.search_queries.v, IsQuery)) > MaxSearches
    /\ Len(direct.searched) = MaxSearches

\* the line is the label of field k, in bold or plain, and a value
IsLabelled(line, k) ==
    \/ StartsWith(Strip(line), <<Bold, k, Bold, Colon>>)
    \/ StartsWith(Strip(line), <<k, Colon>>)

\* the lines of the text that are not blank
TextLines(text) == SelectSeq(text.lines, LAMBDA l : Strip(l) # <<>>)

\* the text is one labelled line for each of the fields and nothing else
LabelledLinesFor(text, fields) ==
    /\ text.kind = "lines"
    /\ Len(TextLines(text)) = Len(fields)
    /\ \A i \in 1..Len(fields) :
          \E j \in 1..Len(fields) : IsLabelled(TextLines(text)[j], fields[i])

\* the value the text gives on the line labelled k
LabelledValue(text, k) ==
    LET line == CHOOSE l \in {TextLines(text)[j] : j \in 1..Len(TextLines(text))} :
                    IsLabelled(l, k)
    IN  Strip(AfterFirst(line, Colon))

\* C28: when none of the answers of the speech stage is a parseable JSON
\* object and the answer to the last repair prompt is one labelled line
\* "field<colon>value" for each of the required fields (there is at least
\* one), generate_turn does not raise and its content map has exactly the
\* required fields, each with the value of its line, stripped and cut to
\* max_chars characters: the value itself when it is not longer than that.
C28_LabelledLinesFallback ==
    (/\ direct.name = "generate_turn"
     /\ direct.required_fields # <<>>
     /\ \A i \in 1..StageCalls : ExtractJsonObject(direct.responses[i]).res # "ok"
     /\ LabelledLinesFor(direct.responses[4], direct.required_fields))
    => /\ direct.res = "ok"
       /\ DOMAIN direct.content =
              {direct.required_fields[i] : i \in 1..Len(direct.required_fields)}
       /\ \A k \in DOMAIN direct.content :
             LET v == LabelledValue(direct.responses[4], k)
             IN  /\ direct.content[k] = TruncateChars(v, direct.max_chars)
                 /\ Len(v) <= direct.max_chars => direct.content[k] = v

\* the fallback has read two labelled lines after five answers without JSON
C28_Witness ==
    /\ direct.name = "generate_turn"
    /\ direct.required_fields = <<"P", "Q">>
    /\ \A i \in 1..StageCalls : ExtractJsonObject(direct.responses[i]).res # "ok"
    /\ LabelledLinesFor(direct.responses[4], direct.required_fields)
    /\ direct.calls = StageCalls
    /\ direct.res = "ok"
    /\ direct.content["P"] = <<"A">>
    /\ direct.content["Q"] = <<"B">>

---------------------------------------------------------------------------
(* DebaterAgent._generate_plan called directly, with the answers the LLM
   gives to the prompt, to the three repair prompts and to the skeleton
   prompt *)

\* two plans the LLM may give, told apart by need_search
PlanTexts ==
    {[kind |-> "object",
      obj |-> [need_search |-> JsonBool(b), search_queries |-> JsonList(<<>>)]] :
        b \in BOOLEAN}

\* an answer is one of the plans or a text that is no JSON object
PlanResponses == [1..StageCalls -> PlanTexts \cup {NoLines}]

\* _generate_plan runs with these answers
PlanCall ==
    /\ direct = NoOp
    /\ \E responses \in PlanResponses :
          \E r \in {ExtractJsonWithRetry(responses)} :
              direct' = [name |-> "generate_plan", responses |-> responses,
                         calls |-> r.calls, parsed |-> r.res,
                         plan |-> GeneratePlan(responses)]
    /\ UNCHANGED <<agentVars, mode, dim, ann, redis, cold, resolverVars, written,
                   sinceSet, threadVars>>

PlanReturn ==
    /\ direct # NoOp
    /\ direct' = NoOp
    /\ UNCHANGED <<agentVars, mode, dim, ann, redis, cold, resolverVars, written,
                   sinceSet, threadVars>>

PlanNext == PlanCall \/ PlanReturn

SpecPlan == TurnInit /\ [][PlanNext]_vars

\* the answers that are parseable JSON objects
Parseable(responses) ==
    {i \in 1..StageCalls : ExtractJsonObject(responses[i]).res = "ok"}

\* the least element of a non-empty set of numbers
Least(S) == CHOOSE i \in S : \A j \in S : i <= j

\* C39: the retry loop calls the LLM at most 4 times after the first answer;
\* when some answer of the sequence (first, three repairs, skeleton) is a
\* parseable JSON object the plan is the object of the first such answer
\* and the LLM is not called after it; when none is, the plan stage yields
\* the default plan, with need_search false.
C39_FirstParseableReturned ==
    direct.name = "generate_plan" =>
        /\ direct.calls <= StageCalls
        /\ Parseable(direct.responses) # {} =>
              /\ direct.plan = direct.responses[Least(Parseable(direct.responses))].obj
              /\ direct.calls = Least(Parseable(direct.responses))
        /\ Parseable(direct.responses) = {} =>
              (direct.plan = DefaultPlan /\ ~PyBool(direct.plan.need_search))

---------------------------------------------------------------------------
(* SearxngClient.search called directly, with the HTTP exchange spelled
   out: what requests.get does, the status of the response and its body *)

\* the longest "results" array of a response
MaxItems == 3

\* the outcomes of requests.get: no response (connection error, timeout),
\* or a response with a status of one of the classes; a 3xx response is one
\* requests does not follow (300, 304, or no Location header)
Statuses == {"neterr", "2xx", "3xx", "4xx", "5xx"}

\* the title of an item of the results array, as the provider sends it
ItemTitles == {<<"a">>, <<" ", "b">>}

\* the body of a response: not JSON, or a JSON object with a results array
Bodies ==
    {[kind |-> "notjson"]}
        \cup {[kind |-> "json", results |-> rs] : rs \in SeqsUpTo(ItemTitles, MaxItems)}

\* the values of max_results: small ones and the default
MaxResultsValues == {0, 1, 2, MaxKept}

\* Response.raise_for_status raises HTTPError for 400 <= status < 600
RaiseForStatus(status) == status \in {"4xx", "5xx"}

\* search(query, max_results=...)
ClientSearch(status, body, max_results) ==
    IF status = "neterr" THEN [res |-> "raise", results |-> <<>>]
    ELSE IF RaiseForStatus(status) THEN [res |-> "raise", results |-> <<>>]
    ELSE IF body.kind = "notjson" THEN [res |-> "raise", results |-> <<>>]
    ELSE [res |-> "ok",
          results |-> [i \in 1..Len(FirstK(body.results, max_results)) |->
                          Strip(body.results[i])]]

ClientCall ==
    /\ direct = NoOp
    /\ \E status \in Statuses, body \in Bodies, max_results \in MaxResultsValues :
          \E r \in {ClientSearch(status, body, max_results)} :
              direct' = [name |-> "client_search", status |-> status, body |-> body,
                         max_results |-> max_results, res |-> r.res,
                         results |-> r.results]
    /\ UNCHANGED <<agentVars, mode, dim, ann, redis, cold, resolverVars, written, sinceSet,
                   threadVars>>

ClientReturn ==
    /\ direct # NoOp
    /\ direct' = NoOp
    /\ UNCHANGED <<agentVars, mode, dim, ann, redis, cold, resolverVars, written, sinceSet,
                   threadVars>>

ClientNext == ClientCall \/ ClientReturn

SpecClient == TurnInit /\ [][ClientNext]_vars

Min(a, b) == IF a < b THEN a ELSE b

\* C22: search returns the first min(n, max_results) elements of the
\* results array of the response, in the provider's order, and raises on a
\* network error and on every status that is not 2xx.
C22_FirstResultsOrRaise ==
    direct.name = "client_search" =>
        /\ direct.res = "ok" =>
              /\ direct.body.kind = "json"
              /\ Len(direct.results) = Min(Len(direct.body.results), direct.max_results)
              /\ \A i \in 1..Len(direct.results) :
                    direct.results[i] = Strip(direct.body.results[i])
        /\ direct.status # "2xx" => direct.res = "raise"

---------------------------------------------------------------------------
(* FallbackChatModel: any sequence of invoke calls on one instance.  The
   clients are numbered from 0 as in self._clients; fails is the set of the
   clients that raise if they are invoked during the call. *)

\* the longest list of clients make_chat_model passes
MaxProviders == 4

\* the caches, the embedder and its threads rest
NoSearch ==
    /\ mode = "hash"
    /\ dim = DefaultDim
    /\ ann = "noindex"
    /\ redis = <<>>
    /\ cold = <<>>
    /\ last = NoCall
    /\ first = NoFirst
    /\ unsupported = FALSE
    /\ coldFailed = FALSE
    /\ direct = NoOp
    /\ written = <<>>
    /\ sinceSet = <<>>
    /\ pc = <<>>
    /\ stModel = 0
    /\ built = 0

NoGraph ==
    /\ round = 0
    /\ rounds = 0
    /\ stage = ""
    /\ first_side = ""
    /\ blocks = <<>>
    /\ node = "none"
    /\ executed = 0

\* the loop of invoke from offset on: tried is the list of the clients
\* invoked so far, dis the set _disabled
RECURSIVE TryClients(_, _, _, _, _, _)
TryClients(n, start, offset, dis, fails, tried) ==
    IF offset = n
    THEN [res |-> "raise", tried |-> tried, disabled |-> dis, active_idx |-> start]
    ELSE LET idx == (start + offset) % n
         IN  IF idx \in dis
             THEN TryClients(n, start, offset + 1, dis, fails, tried)
             ELSE IF idx \in fails
             THEN TryClients(n, start, offset + 1, dis \cup {idx}, fails,
                             Append(tried, idx))
             ELSE [res |-> "ok", tried |-> Append(tried, idx), disabled |-> dis,
                   active_idx |-> idx]

\* the mutant: invoke without its circuit breaker
InvokeNoBreaker(n, dis, active, fails) ==
    IF n = 0 THEN [res |-> "raise", tried |-> <<>>, disabled |-> dis, active_idx |-> active]
    ELSE [TryClients(n, active, 0, dis, fails, <<>>) EXCEPT !.disabled = dis]

\* the mutant: invoke that tries every client again once all are disabled
InvokeRecovering(n, dis, active, fails) ==
    IF n = 0 THEN [res |-> "raise", tried |-> <<>>, disabled |-> dis, active_idx |-> active]
    ELSE IF dis = 0..(n - 1) THEN TryClients(n, active, 0, {}, fails, <<>>)
    ELSE TryClients(n, active, 0, dis, fails, <<>>)

\* invoke(*args, **kwargs)
Invoke(n, dis, active, fails) ==
    IF n = 0 THEN [res |-> "raise", tried |-> <<>>, disabled |-> dis, active_idx |-> active]
    ELSE TryClients(n, active, 0, dis, fails, <<>>)

\* FallbackChatModel(clients)
LlmInit ==
    /\ NoSearch
    /\ NoGraph
    /\ clients \in 0..MaxProviders
    /\ disabled = {}
    /\ active_idx = 0
    /\ everRaised = {}

LlmInvoke ==
    /\ direct = NoOp
    /\ \E fails \in SUBSET (0..(clients - 1)) :
          \E r \in {Invoke(clients, disabled, active_idx, fails)} :
              /\ direct' = [name |-> "invoke", fails |-> fails, res |-> r.res,
                            tried |-> r.tried,
                            before |-> [disabled |-> disabled, active_idx |-> active_idx,
                                        everRaised |-> everRaised]]
              /\ disabled' = r.disabled
              /\ active_idx' = r.active_idx
              /\ everRaised' =
                    everRaised \cup {r.tried[i] : i \in {j \in 1..Len(r.tried) :
                                                           r.tried[j] \in fails}}
    /\ UNCHANGED <<clients, graphVars, mode, dim, ann, redis, cold, resolverVars,
                   written, sinceSet, threadVars>>

LlmReturn ==
    /\ direct # NoOp
    /\ direct' = NoOp
    /\ UNCHANGED <<agentVars, mode, dim, ann, redis, cold, resolverVars, written,
                   sinceSet, threadVars>>

LlmNext == LlmInvoke \/ LlmReturn

SpecLlm == LlmInit /\ [][LlmNext]_vars

\* the clients that were not disabled before the call, in cyclic list order
\* from the active one
CyclicOrder(n, start, dis) ==
    SelectSeq([k \in 1..n |-> (start + k - 1) % n], LAMBDA i : i \notin dis)

\* C23: invoke tries the clients that are not disabled in cyclic list order
\* from the active one, up to the first that answers, returns that answer
\* and makes that client the active one; a client that has raised once is
\* disabled and no later invoke calls it.
C23_FallbackInOrder ==
    direct.name = "invoke" =>
        LET order == CyclicOrder(clients, direct.before.active_idx,
                                 direct.before.disabled)
            tried == direct.tried
        IN  /\ Len(tried) <= Len(order)
            /\ tried = SubSeq(order, 1, Len(tried))
            /\ \A i \in 1..(Len(tried) - 1) : tried[i] \in direct.fails
            /\ direct.res = "ok" =>
                  /\ tried # <<>>
                  /\ tried[Len(tried)] \notin direct.fails
                  /\ active_idx = tried[Len(tried)]
            /\ direct.res = "raise" =>
                  /\ tried = order
                  /\ \A i \in 1..Len(tried) : tried[i] \in direct.fails
                  /\ active_idx = direct.before.active_idx
            /\ \A i \in 1..Len(tried) : tried[i] \notin direct.before.everRaised
            /\ everRaised \subseteq disabled

\* an invoke that starts at an active client other than the first, after a
\* client has raised in an earlier call, gets an exception from the active
\* client and the answer from the next
C23_Witness ==
    /\ direct.name = "invoke"
    /\ direct.res = "ok"
    /\ direct.before.active_idx # 0
    /\ direct.before.everRaised # {}
    /\ Len(direct.tried) = 2
    /\ direct.tried[1] = direct.before.active_idx
    /\ direct.tried[2] = direct.tried[1] + 1

\* the indices of the clients
ClientIds == 0..(clients - 1)

\* C37: invoke raises exactly when no provider is configured or every
\* provider is disabled or fails when the call invokes it; a disabled
\* provider stays disabled, and once every provider is disabled invoke
\* raises without invoking any.
C37_RaisesIffNoneAnswers ==
    direct.name = "invoke" =>
        /\ direct.res = "raise" <=>
              (clients = 0
                 \/ \A i \in ClientIds : i \in direct.before.disabled \/ i \in direct.fails)
        /\ direct.before.disabled \subseteq disabled
        /\ direct.before.disabled = ClientIds =>
              (direct.res = "raise" /\ direct.tried = <<>> /\ disabled = ClientIds)

\* every provider is disabled and an invoke that none of them would fail
\* raises without invoking any
C37_Witness ==
    /\ direct.name = "invoke"
    /\ clients = MaxProviders
    /\ direct.before.disabled = ClientIds
    /\ direct.fails = {}
    /\ direct.res = "raise"
    /\ direct.tried = <<>>

\* C38: with at least one provider, after any sequence of invoke calls
\* active_provider, the name of the client at _active_idx, never names a
\* provider that is disabled.
C38_ActiveNeverDisabled ==
    clients >= 1 => active_idx \notin disabled

---------------------------------------------------------------------------
(* The debate graph of orchestration/graph.py: allocate_stage_counts,
   determine_stage and the nodes chairman_start, proponent_turn,
   opponent_turn, chairman_eval and router.  The four stages are named in
   English here, in the order of _STAGE_WEIGHTS: opening, cross-examination,
   free debate, summary.  The weights are kept in hundredths and the
   products weight * total_rounds are computed exactly; up to 139 rounds
   the floating-point products of the code have the same floors and the
   same order of remainders. *)

\* the largest number of rounds of a debate
MaxRounds == 20

\* stage_cfg.get("every_n_rounds", 5)
EveryNRounds == 5

StageNames == <<"opening", "cross_examination", "free_debate", "summary">>

\* _STAGE_WEIGHTS, in hundredths
StageWeights == <<21, 16, 36, 27>>

StageCount == Len(StageNames)

Stages == 1..StageCount

RECURSIVE SumSeq(_)
SumSeq(seq) == IF seq = <<>> THEN 0 ELSE Head(seq) + SumSeq(Tail(seq))

\* the branch total_rounds < stage_count
FewRounds(total_rounds) ==
    <<1,
      IF total_rounds - 2 > 0 THEN 1 ELSE 0,
      IF total_rounds - 3 > 0 THEN 1 ELSE 0,
      IF total_rounds - 1 > 0 THEN 1 ELSE 0>>

\* the mutant: no round is handed out after the floors
TopUpNone(floors, remainders, remaining) == floors

\* the remaining rounds go to the stages of the largest remainders, the
\* earlier stage first among equal remainders
TopUp(floors, remainders, remaining) ==
    LET Ahead(i) ==
            Cardinality({j \in Stages :
                \/ remainders[j] > remainders[i]
                \/ remainders[j] = remainders[i] /\ j < i})
    IN  [i \in Stages |-> floors[i] + IF Ahead(i) < remaining THEN 1 ELSE 0]

\* the loop that gives a stage without rounds one round of the stage that
\* has the most, from stage i on
RECURSIVE Donate(_, _)
Donate(counts_list, i) ==
    IF i > StageCount THEN counts_list
    ELSE IF counts_list[i] > 0 THEN Donate(counts_list, i + 1)
    ELSE LET donors == {j \in Stages : counts_list[j] > 1}
         IN  IF donors = {} THEN Donate(counts_list, i + 1)
             ELSE LET donor == CHOOSE j \in donors :
                                  \A k \in donors :
                                      \/ counts_list[k] < counts_list[j]
                                      \/ counts_list[k] = counts_list[j] /\ j <= k
                  IN  Donate([counts_list EXCEPT ![donor] = @ - 1, ![i] = 1], i + 1)

\* allocate_stage_counts(total_rounds=...)
AllocateStageCounts(total_rounds) ==
    IF total_rounds <= 0 THEN [res |-> "raise", counts |-> <<>>]
    ELSE IF total_rounds < StageCount
    THEN [res |-> "ok", counts |-> FewRounds(total_rounds)]
    ELSE LET floors == [i \in Stages |-> (StageWeights[i] * total_rounds) \div 100]
             remainders == [i \in Stages |-> (StageWeights[i] * total_rounds) % 100]
             remaining == total_rounds - SumSeq(floors)
         IN  [res |-> "ok",
              counts |-> Donate(TopUp(floors, remainders, remaining), 1)]

\* the mutant: the boundaries of the stages taken one round early
StageOfEarly(round_num, counts) ==
    IF round_num < counts[1] THEN StageNames[1]
    ELSE IF round_num < counts[1] + counts[2] THEN StageNames[2]
    ELSE IF round_num < counts[1] + counts[2] + counts[3] THEN StageNames[3]
    ELSE StageNames[4]

\* the comparisons of determine_stage with open_end, cross_end, free_end
StageOf(round_num, counts) ==
    IF round_num <= counts[1] THEN StageNames[1]
    ELSE IF round_num <= counts[1] + counts[2] THEN StageNames[2]
    ELSE IF round_num <= counts[1] + counts[2] + counts[3] THEN StageNames[3]
    ELSE StageNames[4]

\* determine_stage(round_num=..., total_rounds=...), with the counts it
\* was given
DetermineStage(round_num, total_rounds) ==
    LET a == AllocateStageCounts(total_rounds)
    IN  IF a.res = "raise"
        THEN [name |-> "determine_stage", round_num |-> round_num,
              total_rounds |-> total_rounds, res |-> "raise", counts |-> <<>>,
              stage |-> ""]
        ELSE [name |-> "determine_stage", round_num |-> round_num,
              total_rounds |-> total_rounds, res |-> "ok", counts |-> a.counts,
              stage |-> StageOf(round_num, a.counts)]

\* the mutant: the proponent speaks first in every stage
FirstSidePro(stage_name) == "pro"

\* "opp" if stage.startswith(<summary>) else "pro"
FirstSide(stage_name) == IF stage_name = StageNames[4] THEN "opp" ELSE "pro"

\* doc.add_block: the block by its kind, with the round and the stage it
\* was written in
Block(kind) == [kind |-> kind, round |-> round, stage |-> stage]

\* the mutant: a limit of four steps for each round
RecursionLimitLow(total_rounds) == total_rounds * 4

\* recursion_limit = max(100, int(rounds) * 10 + 20)
RecursionLimit(total_rounds) ==
    IF total_rounds * 10 + 20 > 100 THEN total_rounds * 10 + 20 ELSE 100

\* Command(goto=target) of the node that runs as step executed + 1: the
\* graph stops with GraphRecursionError when the limit of steps is used up
\* and the node does not go to END
Goto(target) ==
    IF target # "END" /\ executed + 1 >= RecursionLimit(rounds)
    THEN "recursion_error" ELSE target

\* run_debate(topic, rounds=...) is called
GraphInit ==
    /\ NoSearch
    /\ clients = 0
    /\ disabled = {}
    /\ active_idx = 0
    /\ everRaised = {}
    /\ round = 0
    /\ rounds \in (-1)..MaxRounds
    /\ stage = ""
    /\ first_side = ""
    /\ blocks = <<>>
    /\ node = "run_debate"
    /\ executed = 0

GraphUnchanged ==
    UNCHANGED <<llmVars, mode, dim, ann, redis, cold, resolverVars, written, sinceSet,
                threadVars>>

\* run_debate builds initial_state and starts the graph
InitialState ==
    /\ node = "run_debate"
    /\ \E d \in {DetermineStage(1, rounds)} :
          /\ direct' = d
          /\ IF d.res = "raise"
             THEN /\ node' = "raised"
                  /\ UNCHANGED <<round, stage, first_side>>
             ELSE /\ node' = "chairman_start"
                  /\ round' = 1
                  /\ stage' = d.stage
                  /\ first_side' = "pro"
    /\ UNCHANGED <<rounds, blocks, executed>>
    /\ GraphUnchanged

ChairmanStart ==
    /\ node = "chairman_start"
    /\ \E d \in {DetermineStage(round, rounds)} :
          /\ direct' = d
          /\ stage' = d.stage
          /\ first_side' = FirstSide(d.stage)
          /\ blocks' = Append(blocks, [kind |-> "reminder", round |-> round,
                                       stage |-> d.stage])
          /\ node' = Goto(IF FirstSide(d.stage) = "pro" THEN "proponent_turn"
                          ELSE "opponent_turn")
    /\ executed' = executed + 1
    /\ UNCHANGED <<round, rounds>>
    /\ GraphUnchanged

\* the mutant: after the proponent the opponent always speaks
ProponentTurnThenOpponent ==
    /\ node = "proponent_turn"
    /\ \E spoke \in BOOLEAN :
          IF spoke
          THEN /\ blocks' = Append(blocks, Block("proponent"))
               /\ node' = Goto("opponent_turn")
          ELSE /\ blocks' = blocks
               /\ node' = "raised"
    /\ executed' = executed + 1
    /\ UNCHANGED <<round, rounds, stage, first_side, direct>>
    /\ GraphUnchanged

\* generate_turn returns the speech, or raises and ends the run
ProponentTurn ==
    /\ node = "proponent_turn"
    /\ \E spoke \in BOOLEAN :
          IF spoke
          THEN /\ blocks' = Append(blocks, Block("proponent"))
               /\ node' = Goto(IF first_side = "pro" THEN "opponent_turn"
                               ELSE "chairman_eval")
          ELSE /\ blocks' = blocks
               /\ node' = "raised"
    /\ executed' = executed + 1
    /\ UNCHANGED <<round, rounds, stage, first_side, direct>>
    /\ GraphUnchanged

OpponentTurn ==
    /\ node = "opponent_turn"
    /\ \E spoke \in BOOLEAN :
          IF spoke
          THEN /\ blocks' = Append(blocks, Block("opponent"))
               /\ node' = Goto(IF first_side = "opp" THEN "proponent_turn"
                               ELSE "chairman_eval")
          ELSE /\ blocks' = blocks
               /\ node' = "raised"
    /\ executed' = executed + 1
    /\ UNCHANGED <<round, rounds, stage, first_side, direct>>
    /\ GraphUnchanged

\* the evaluation block, and the stage summary every EveryNRounds rounds
ChairmanEval ==
    /\ node = "chairman_eval"
    /\ blocks' = IF round % EveryNRounds = 0
                 THEN blocks \o <<Block("evaluation"), Block("stage_summary")>>
                 ELSE Append(blocks, Block("evaluation"))
    /\ node' = Goto("router")
    /\ executed' = executed + 1
    /\ UNCHANGED <<round, rounds, stage, first_side, direct>>
    /\ GraphUnchanged

\* the mutant: the router ends the debate one round late
RouterLate ==
    /\ node = "router"
    /\ IF round > rounds
       THEN /\ node' = "END"
            /\ UNCHANGED <<round, stage, first_side, direct>>
       ELSE \E d \in {DetermineStage(round + 1, rounds)} :
               /\ direct' = d
               /\ round' = round + 1
               /\ stage' = d.stage
               /\ first_side' = FirstSide(d.stage)
               /\ node' = Goto("chairman_start")
    /\ executed' = executed + 1
    /\ UNCHANGED <<rounds, blocks>>
    /\ GraphUnchanged

\* if r >= rounds: goto END, else the next round
Router ==
    /\ node = "router"
    /\ IF round >= rounds
       THEN /\ node' = "END"
            /\ UNCHANGED <<round, stage, first_side, direct>>
       ELSE \E d \in {DetermineStage(round + 1, rounds)} :
               /\ direct' = d
               /\ round' = round + 1
               /\ stage' = d.stage
               /\ first_side' = FirstSide(d.stage)
               /\ node' = Goto("chairman_start")
    /\ executed' = executed + 1
    /\ UNCHANGED <<rounds, blocks>>
    /\ GraphUnchanged

GraphNext ==
    \/ InitialState
    \/ ChairmanStart
    \/ ProponentTurn
    \/ OpponentTurn
    \/ ChairmanEval
    \/ Router

SpecGraph == GraphInit /\ [][GraphNext]_vars

\* the graph keeps running its nodes: LangGraph runs the node a Command goes to
SpecGraphLive == GraphInit /\ [][GraphNext]_vars /\ WF_vars(GraphNext)

\* C24: allocate_stage_counts returns four counts, none negative, whose sum
\* is total_rounds, for every total_rounds >= 1; every stage gets at least
\* one round when total_rounds >= 4; for total_rounds <= 0 it raises
\* ValueError.
C24_CountsSumToTotal ==
    direct.name = "determine_stage" =>
        /\ direct.total_rounds <= 0 <=> direct.res = "raise"
        /\ direct.res = "ok" =>
              /\ Len(direct.counts) = StageCount
              /\ \A i \in Stages : direct.counts[i] >= 0
              /\ SumSeq(direct.counts) = direct.total_rounds
              /\ direct.total_rounds >= StageCount =>
                    \A i \in Stages : direct.counts[i] >= 1

\* a debate of the default length, whose rounds do not divide evenly
C24_Witness ==
    /\ direct.name = "determine_stage"
    /\ direct.res = "ok"
    /\ direct.total_rounds = MaxRounds
    /\ direct.counts # [i \in Stages |-> (StageWeights[i] * MaxRounds) \div 100]

StageIndex(stage_name) == CHOOSE i \in Stages : StageNames[i] = stage_name

\* C25: for every total_rounds >= 1 the stages determine_stage gives to the
\* rounds 1..total_rounds never go back in the order opening,
\* cross-examination, free debate, summary; round 1 is the opening, the
\* last round is the summary when total_rounds >= 2, and each stage has as
\* many rounds as allocate_stage_counts counts for it.
C25_StagesInOrder ==
    (direct.name = "determine_stage" /\ direct.res = "ok") =>
        LET n == direct.total_rounds
            stages == [r \in 1..n |-> DetermineStage(r, n).stage]
        IN  /\ direct.stage = stages[direct.round_num]
            /\ \A r \in 1..(n - 1) : StageIndex(stages[r]) <= StageIndex(stages[r + 1])
            /\ stages[1] = StageNames[1]
            /\ n >= 2 => stages[n] = StageNames[4]
            /\ \A i \in Stages :
                  Cardinality({r \in 1..n : stages[r] = StageNames[i]}) = direct.counts[i]
            /\ \A k \in 1..Len(blocks) :
                  blocks[k].kind = "reminder" => blocks[k].stage = stages[blocks[k].round]

\* the last round of a debate of the default length, with rounds of all
\* four stages in the document
C25_Witness ==
    /\ direct.name = "determine_stage"
    /\ direct.round_num = MaxRounds
    /\ direct.total_rounds = MaxRounds
    /\ direct.stage = StageNames[4]
    /\ \A i \in Stages :
          \E k \in 1..Len(blocks) :
              blocks[k].kind = "reminder" /\ blocks[k].stage = StageNames[i]

\* the kinds of the blocks of round r in the order they were appended, the
\* stage summary aside
RoundBlocks(r) ==
    LET InRound(b) == b.round = r /\ b.kind # "stage_summary"
        bs == SelectSeq(blocks, InRound)
    IN  [k \in 1..Len(bs) |-> bs[k].kind]

IsPrefix(s, t) == Len(s) <= Len(t) /\ s = SubSeq(t, 1, Len(s))

ProponentFirst == <<"reminder", "proponent", "opponent", "evaluation">>

OpponentFirst == <<"reminder", "opponent", "proponent", "evaluation">>

ReminderRounds ==
    LET rs == SelectSeq(blocks, LAMBDA b : b.kind = "reminder")
    IN  [k \in 1..Len(rs) |-> rs[k].round]

\* the run is over: the graph reached END, or a node or run_debate raised
Over == node \in {"END", "raised", "recursion_error"}

\* C35: a debate of rounds = N >= 1 ends: the rounds that are run are 1, 2,
\* 3, ... in increasing order, each once, the round counter grows by one at
\* a time from the router and never exceeds N, END is reached only from
\* the router of round N, with all N rounds run, and every run ends, at
\* END unless a node raises.
C35_DebateTerminates ==
    /\ [](rounds >= 1 =>
            /\ round <= rounds
            /\ ReminderRounds = [k \in 1..Len(ReminderRounds) |-> k]
            /\ Len(ReminderRounds) \in {round - 1, round}
            /\ node = "END" => (round = rounds /\ Len(ReminderRounds) = rounds))
    /\ [][/\ round' # round => (round' = round + 1 /\ node \in {"router", "run_debate"})
          /\ (node' = "END" /\ node # "END") => (node = "router" /\ round = rounds)]_vars
    /\ <>Over
    /\ [](Over => node # "recursion_error")

\* a debate of seven rounds that has reached END
C35_Witness ==
    /\ node = "END"
    /\ rounds = 7
    /\ round = 7
    /\ ReminderRounds = <<1, 2, 3, 4, 5, 6, 7>>

\* how many blocks of a kind round r has
Count(r, kind) ==
    Cardinality({k \in 1..Len(blocks) : blocks[k].round = r /\ blocks[k].kind = kind})

\* where in the document the block of a kind of round r is
Pos(r, kind) ==
    CHOOSE k \in 1..Len(blocks) : blocks[k].round = r /\ blocks[k].kind = kind

NodesPerRound == 5

\* C40: for rounds = N >= 1 the graph runs at most five nodes for each round,
\* which is never more than the recursion limit max(100, 10 * N + 20): no
\* run ends with GraphRecursionError.
C40_WithinRecursionLimit ==
    /\ node # "recursion_error"
    /\ rounds >= 1 =>
          /\ executed <= NodesPerRound * rounds
          /\ NodesPerRound * rounds <= RecursionLimit(rounds)
          /\ node = "END" => executed = NodesPerRound * rounds

\* the longest debate at its end
C40_Witness ==
    /\ node = "END"
    /\ rounds = MaxRounds
    /\ executed = NodesPerRound * MaxRounds
    /\ executed <= RecursionLimit(rounds)

---------------------------------------------------------------------------
(* ClerkAgent.rewrite_round.  A text is a sequence of characters, " "
   standing for any white space; a fields text is the sequence of its
   lines.  Colon stands for the full-width colon the code splits at. *)

\* len(norm) <= 40
ShortPiece == 40

\* norm[:60], norm[-60:] and the 60 characters around the middle
Window == 60

\* s[a:b] of Python
PySlice(s, a, b) ==
    LET Clamp(i) == IF i < 0 THEN (IF Len(s) + i < 0 THEN 0 ELSE Len(s) + i)
                    ELSE (IF i > Len(s) THEN Len(s) ELSE i)
    IN  SubSeq(s, Clamp(a) + 1, Clamp(b))

\* "".join(s.split())
Normalize(s) == SelectSeq(s, LAMBDA c : c # " ")

\* p in t
IsSubstring(p, t) ==
    \E i \in 0..(Len(t) - Len(p)) : SubSeq(t, i + 1, i + Len(p)) = p

\* piece.split(<colon>, 1)[1]
AfterColon(piece) ==
    LET at == CHOOSE i \in 1..Len(piece) :
                  piece[i] = Colon /\ \A j \in 1..(i - 1) : piece[j] # Colon
    IN  SubSeq(piece, at + 1, Len(piece))

\* s.lstrip("-")
RECURSIVE LStripDash(_)
LStripDash(s) == IF s # <<>> /\ Head(s) = "-" THEN LStripDash(Tail(s)) ELSE s

Covered(piece, out_norm) ==
    LET text == IF \E i \in 1..Len(piece) : piece[i] = Colon
                THEN Strip(AfterColon(piece)) ELSE piece
        norm == Normalize(text)
        half == Len(norm) \div 2
    IN  IF norm = <<>> THEN TRUE
        ELSE IF Len(norm) <= ShortPiece THEN IsSubstring(norm, out_norm)
        ELSE \/ IsSubstring(PySlice(norm, 0, Window), out_norm)
             \/ IsSubstring(PySlice(norm, half - Window \div 2, half + Window \div 2),
                            out_norm)
             \/ IsSubstring(PySlice(norm, 0 - Window, Len(norm)), out_norm)

\* the piece of a line of a fields text, <<>> for a line that is no bullet
Piece(line) ==
    LET t == Strip(line)
    IN  IF t = <<>> \/ Head(t) # "-" THEN <<>> ELSE Strip(LStripDash(t))

\* _find_missing_coverage: the pieces of the bullets the output does not
\* cover, in the order of the sources
FindMissingCoverage(output, pro_fields_text, opp_fields_text) ==
    LET lines == pro_fields_text \o opp_fields_text
        pieces == [k \in 1..Len(lines) |-> Piece(lines[k])]
        Missing(piece) == piece # <<>> /\ ~Covered(piece, Normalize(output))
    IN  SelectSeq(pieces, Missing)

\* the mutant: the second output is returned whatever its coverage
RewriteRoundKeepSecond(outputs, pro_fields_text, opp_fields_text) ==
    IF FindMissingCoverage(Strip(outputs[1]), pro_fields_text, opp_fields_text) = <<>>
    THEN [calls |-> 1, markdown |-> Strip(outputs[1])]
    ELSE [calls |-> 2, markdown |-> Strip(outputs[2])]

\* rewrite_round; outputs[k] is what the LLM answers to the k-th call
RewriteRound(outputs, pro_fields_text, opp_fields_text) ==
    LET text == Strip(outputs[1])
        missing == FindMissingCoverage(text, pro_fields_text, opp_fields_text)
        text2 == Strip(outputs[2])
        missing2 == FindMissingCoverage(text2, pro_fields_text, opp_fields_text)
    IN  IF missing = <<>> THEN [calls |-> 1, markdown |-> text]
        ELSE [calls |-> 2, markdown |-> IF missing2 = <<>> THEN text2 ELSE text]

Bullet(text) == <<"-", " ", "L", Colon>> \o text

\* a bullet of 41 characters: 31 times "A", then 10 times "B"
LongText == [i \in 1..(ShortPiece + 1) |-> IF i > ShortPiece - 9 THEN "B" ELSE "A"]

ProFieldsTexts ==
    {<<>>, <<Bullet(<<"A">>), Bullet(<<"B">>)>>, <<Bullet(<<"A", " ", "B">>)>>,
     <<<<"A">>, Bullet(<<>>)>>, <<Bullet(LongText)>>}

OppFieldsTexts == {<<>>, <<Bullet(<<"a">>)>>}

\* what the LLM may answer
ClerkOutputs ==
    {<<>>, <<"A">>, <<" ", "A", " ", "B", " ", "a", " ">>, <<"a", "B", "A">>,
     <<"A", "B", " ", "a">>, [i \in 1..10 |-> "B"]}

ClerkCall ==
    /\ direct = NoOp
    /\ \E pro \in ProFieldsTexts, opp \in OppFieldsTexts,
          outputs \in ClerkOutputs \X ClerkOutputs :
          \E r \in {RewriteRound(outputs, pro, opp)} :
              direct' = [name |-> "rewrite_round", pro |-> pro, opp |-> opp,
                         outputs |-> outputs, calls |-> r.calls,
                         markdown |-> r.markdown]
    /\ UNCHANGED <<agentVars, mode, dim, ann, redis, cold, resolverVars, written,
                   sinceSet, threadVars>>

ClerkReturn ==
    /\ direct # NoOp
    /\ direct' = NoOp
    /\ UNCHANGED <<agentVars, mode, dim, ann, redis, cold, resolverVars, written,
                   sinceSet, threadVars>>

ClerkNext == ClerkCall \/ ClerkReturn

SpecClerk == TurnInit /\ [][ClerkNext]_vars

\* the output passes the coverage check: it covers every bullet of the two
\* sources
Covers(output) ==
    \A k \in 1..Len(direct.pro \o direct.opp) :
        LET piece == Piece((direct.pro \o direct.opp)[k])
        IN  piece = <<>> \/ Covered(piece, Normalize(output))

\* C27: rewrite_round calls the LLM once when the first output covers
\* every source bullet and twice otherwise, never more; it returns the
\* second output only if that one passes the coverage check, and the first
\* output otherwise.
C27_OneRetryAtMost ==
    direct.name = "rewrite_round" =>
        /\ direct.calls = IF Covers(direct.outputs[1]) THEN 1 ELSE 2
        /\ direct.markdown =
              IF ~Covers(direct.outputs[1]) /\ Covers(direct.outputs[2])
              THEN Strip(direct.outputs[2]) ELSE Strip(direct.outputs[1])

\* a call whose two outputs both miss a bullet and differ
C27_Witness ==
    /\ direct.name = "rewrite_round"
    /\ direct.calls = 2
    /\ ~Covers(direct.outputs[2])
    /\ Strip(direct.outputs[2]) # Strip(direct.outputs[1])
    /\ direct.markdown = Strip(direct.outputs[1])

====
